---- MODULE Spec2Model ----
(***************************************************************************)
(* A model of the campaign workflow coordinator of Marketing_campaign:    *)
(* CampaignOrchestrator (orchestrator.py), the two mail senders           *)
(* (utils/sendgrid_sender.py, utils/email_sender.py), the metrics         *)
(* tracker (utils/sendgrid_tracker.py) and the A/B testing agent          *)
(* (agents/ab_testing_agent.py), with the deliverability and reporting    *)
(* agents and the webhook handler (utils/sendgrid_webhook_handler.py).    *)
(*                                                                         *)
(* The module holds several specifications over one set of variables:     *)
(*   Spec         the dispatch life cycle of one campaign state           *)
(*                (send_variant, process_results)                         *)
(*   SpecBatch    send_batch of either sender on one recipient list       *)
(*   SpecConc     two send_variant calls interleaved on one campaign      *)
(*   SpecPipeline run_campaign, node by node                              *)
(*   SpecMetrics  successive reconciliations of dispatched labels         *)
(*   SpecGroups   create_test_groups on one recipient list                *)
(*   SpecAgent    an ABTestingAgent alone: record_event, track_metric,    *)
(*                calculate_metrics, save_results                         *)
(*   SpecGate     the dispatch life cycle after every deliverability      *)
(*                verdict                                                 *)
(*   SpecReport   the deliverability check of a campaign's variants and   *)
(*                the report generated from it                            *)
(*   SpecWebhook  one request to the provider's webhook endpoint          *)
(*   SpecOnce     a caller sending every label of a campaign once         *)
(***************************************************************************)
EXTENDS Integers, Sequences, FiniteSets, TLC

VARIABLES
    use_sendgrid,     \* CampaignOrchestrator.use_sendgrid (SendGrid or SMTP sender)
    campaign_state,   \* the campaign state dictionary handed from call to call
    test_results,     \* ABTestingAgent.test_results[campaign_id] of the orchestrator
    provider,         \* the metrics provider: whether it answers, and its statistics
    sink,             \* can the activity log (user_activity.csv) be written?
    grouping,         \* SpecGroups: one create_test_groups call (input, groups)
    agent,            \* SpecAgent: an ABTestingAgent's records, results file, returns
    report,           \* SpecReport: a deliverability check and the report made of it
    webhook,          \* SpecWebhook: one webhook request and the activity-log rows
    caller,           \* SpecOnce: the labels the caller has still to send
    calls,            \* history: the send_batch and process_results calls made
    lastCall,         \* history: the operation of the last step and its argument
    batch,            \* SpecBatch: one send_batch call (input, results, attempts)
    threads,          \* SpecConc: the two callers' positions
    pipeline,         \* SpecPipeline: run_campaign's position, node log, stages run
    fed               \* SpecMetrics: the counts the provider answered for one label

vars == <<use_sendgrid, campaign_state, test_results, provider, sink, grouping, agent,
          report, webhook, caller, calls, lastCall, batch, threads, pipeline, fed>>

(***************************************************************************)
(* Bounds of the model.                                                    *)
(***************************************************************************)
MaxRecipients == 2      \* recipients selected by segmentation (Spec, SpecConc)
MaxGroupInput == 5      \* recipients handed to create_test_groups (SpecGroups)
MaxNumVariants == 4     \* num_variants asked of create_test_groups (SpecGroups)
MaxShortfall == 4       \* how far below 1 the asked num_variants goes (SpecGroups)
MaxSpamScore == 25      \* spam score of a variant's content (SpecReport)
MaxEvents == 2          \* events of one webhook request (SpecWebhook)
MaxAgentCalls == 3      \* calls made on one ABTestingAgent (SpecAgent)
MaxBatch == 10          \* recipients handed to send_batch (SpecBatch)
MaxCalls == 3           \* send_batch and process_results calls per campaign (Spec)
MaxOpens == 1           \* largest count of the provider's statistics (Spec, SpecConc)
MaxStat == 8            \* largest count of a provider answer (SpecMetrics)
MaxReconciles == 3      \* reconciliations of one campaign (SpecMetrics)

(***************************************************************************)
(* Values.                                                                 *)
(***************************************************************************)
NoEmail == 0                  \* recipient.get("email", "") == ""
NoId == 0                     \* no X-Message-Id header in the response
NA == -1                      \* the "N/A" of an error entry without an address

VariantLabels == <<"A", "B", "C">>
Labels == {"A", "B", "C"}

Counters == {"delivered", "opened", "clicked", "bounced", "spam_reports", "unsubscribes"}

Max(a, b) == IF a >= b THEN a ELSE b
Min(a, b) == IF a <= b THEN a ELSE b

RECURSIVE SeqSum(_)
SeqSum(s) == IF s = <<>> THEN 0 ELSE Head(s) + SeqSum(Tail(s))

Range(s) == {s[i] : i \in DOMAIN s}

\* Python dictionaries are functions on the set of their keys.
EmptyDict == [k \in {} |-> 0]
Put(d, k, v) == (k :> v) @@ d
Get(d, k, default) == IF k \in DOMAIN d THEN d[k] ELSE default

\* A recipient dictionary: id stands for the person, email for the "email" key.
Recipient(i, hasEmail) == [id |-> i, email |-> IF hasEmail THEN i ELSE NoEmail]

\* The recipient lists of length n whose members all have an address or all
\* lack one (a CSV with or without an email column).
UniformRecipients(n, hasEmail) == [i \in 1..n |-> Recipient(i, hasEmail)]

\* The recipient lists of length n, each member with or without an address.
MixedRecipients(n) ==
    {[i \in 1..n |-> Recipient(i, i \notin noAddr)] : noAddr \in SUBSET (1..n)}

(***************************************************************************)
(* The mail senders.  What one send attempt meets is the environment's    *)
(* choice: "accepted" (2xx, with an X-Message-Id), "accepted_noid" (2xx,  *)
(* no id header), "failed" (an exception, or a non-2xx status).           *)
(***************************************************************************)
SendGridOutcomes == {"accepted", "accepted_noid", "failed"}
SmtpOutcomes == {"accepted", "failed"}

\* SendGridSender.send_email: the result dictionary (success, message_id).
SendGridSendEmail(recipient, outcome) ==
    IF outcome = "failed"
    THEN [success |-> FALSE, message_id |-> NoId]
    ELSE [success |-> TRUE,
          message_id |-> IF outcome = "accepted" THEN recipient.id ELSE NoId]

\* EmailSender.send_email: True when the SMTP session accepted the message.
\* A message with an empty To header has no recipient and is refused.
SmtpSendEmail(recipient, outcome) ==
    recipient.email # NoEmail /\ outcome = "accepted"

EmptySendGridResults(recipients) ==
    [total |-> Len(recipients), sent |-> 0, failed |-> 0, message_ids |-> <<>>,
     errors |-> <<>>, per_recipient |-> <<>>]

\* The loop of SendGridSender.send_batch from recipient i on.  run.results is
\* the results dictionary, run.attempted the recipients send_email was called
\* for, in call order.
RECURSIVE SendGridLoop(_, _, _, _)
SendGridLoop(recipients, outcome, i, run) ==
    IF i > Len(recipients) THEN run
    ELSE LET recipient == recipients[i]
             email == recipient.email
         IN  IF email = NoEmail
             THEN SendGridLoop(recipients, outcome, i + 1,
                    [run EXCEPT !.results.failed = @ + 1,
                                !.results.errors = Append(@, [email |-> NA])])
             ELSE LET result == SendGridSendEmail(recipient, outcome[i])
                      entry == [email |-> email, success |-> result.success,
                                message_id |-> result.message_id]
                      r1 == [run EXCEPT !.attempted = Append(@, recipient.id),
                                        !.results.per_recipient = Append(@, entry)]
                      r2 == IF result.success
                            THEN [r1 EXCEPT !.results.sent = @ + 1,
                                            !.results.message_ids =
                                                IF result.message_id # NoId
                                                THEN Append(@, [email |-> email,
                                                                message_id |-> result.message_id])
                                                ELSE @]
                            ELSE [r1 EXCEPT !.results.failed = @ + 1,
                                            !.results.errors = Append(@, [email |-> email])]
                  IN  SendGridLoop(recipients, outcome, i + 1, r2)

\* SendGridSender.send_batch.  The subject and the body always have a fallback
\* text, so the "missing email content" return is never taken.
SendGridSendBatch(recipients, outcome) ==
    LET start == [results |-> EmptySendGridResults(recipients), attempted |-> <<>>]
    IN  IF recipients = <<>> THEN start
        ELSE SendGridLoop(recipients, outcome, 1, start)

\* The loop of EmailSender.send_batch from recipient i on.
RECURSIVE SmtpLoop(_, _, _, _)
SmtpLoop(recipients, outcome, i, run) ==
    IF i > Len(recipients) THEN run
    ELSE LET recipient == recipients[i]
             r1 == [run EXCEPT !.attempted = Append(@, recipient.id)]
             r2 == IF SmtpSendEmail(recipient, outcome[i])
                   THEN [r1 EXCEPT !.results.sent = @ + 1]
                   ELSE [r1 EXCEPT !.results.failed = @ + 1,
                                   !.results.errors = Append(@, [email |-> recipient.email])]
         IN  SmtpLoop(recipients, outcome, i + 1, r2)

\* EmailSender.send_batch.
SmtpSendBatch(recipients, outcome) ==
    SmtpLoop(recipients, outcome, 1,
             [results |-> [total |-> Len(recipients), sent |-> 0, failed |-> 0,
                           errors |-> <<>>],
              attempted |-> <<>>])

\* A send_batch that gives up at the first failed send.
SendBatchAbortsOnFailure(sendgrid, recipients, outcome) ==
    LET fails == {i \in 1..Len(recipients) :
                    recipients[i].email # NoEmail /\ outcome[i] = "failed"}
        last == IF fails = {} THEN Len(recipients)
                ELSE CHOOSE i \in fails : \A j \in fails : i <= j
        head == SubSeq(recipients, 1, last)
        run == IF sendgrid THEN SendGridSendBatch(head, outcome)
               ELSE SmtpSendBatch(head, outcome)
    IN  [run EXCEPT !.results.total = Len(recipients)]

\* self.email_sender.send_batch of the orchestrator's configured sender.
SendBatch(sendgrid, recipients, outcome) ==
    IF sendgrid THEN SendGridSendBatch(recipients, outcome)
    ELSE SmtpSendBatch(recipients, outcome)

\* What the environment may answer to the sends of one batch: an outcome for
\* each recipient position (a position without an address reads "failed").
BatchOutcomes(outcomes, recipients) ==
    {o \in [1..Len(recipients) -> outcomes] :
        \A i \in 1..Len(recipients) :
            recipients[i].email = NoEmail => o[i] = "failed"}

SenderOutcomes(sendgrid) == IF sendgrid THEN SendGridOutcomes ELSE SmtpOutcomes

(***************************************************************************)
(* The metrics provider and SendGridTracker.                               *)
(***************************************************************************)
\* The key of get_email_stats' entries that feeds each counter of the metrics.
PeriodKey == [delivered |-> "delivered", opened |-> "opens", clicked |-> "clicks",
              bounced |-> "bounces", spam_reports |-> "spam_reports",
              unsubscribes |-> "unsubscribes"]

ZeroPeriod == [delivered |-> 0, opens |-> 0, clicks |-> 0, bounces |-> 0,
               spam_reports |-> 0, unsubscribes |-> 0]

OnePeriod(key, v) == [ZeroPeriod EXCEPT ![key] = v]

\* What get_stats may return for the last day: nothing (the provider failed or
\* has no data yet: get_stats swallows every exception and returns []), or one
\* period with a count up to maxv for one of the counters.
OneDayStats(counters, maxv) ==
    {<<>>} \cup {<<OnePeriod(PeriodKey[c], v)>> : c \in counters, v \in 1..maxv}

NoStats == <<>>

\* The provider with nothing to report, and the provider out of reach.
QuietProvider == [up |-> TRUE, stats |-> NoStats]
ProviderDown == [up |-> FALSE, stats |-> NoStats]

\* SendGridTracker.get_stats: the provider's statistics, or [] when the
\* request failed (every exception is swallowed).
GetStats(reply) == IF reply.up THEN reply.stats ELSE <<>>

StatSum(stats, key) == SeqSum([i \in 1..Len(stats) |-> stats[i][key]])

\* SendGridTracker.get_campaign_metrics given what get_stats returned.  The
\* rates of the dictionary are quotients of these counters and are left out.
\* get_stats never raises, so the handler that would fill message_activities
\* from simulate_activity is never entered and the dictionary stays empty.
GetCampaignMetrics(message_ids, stats) ==
    LET total_sent == Len(message_ids)
        delivered == StatSum(stats, "delivered")
        bounced == StatSum(stats, "bounces")
    IN  [total_sent |-> total_sent,
         delivered |-> IF delivered = 0 /\ total_sent > 0
                       THEN total_sent - bounced ELSE delivered,
         opened |-> StatSum(stats, "opens"),
         clicked |-> StatSum(stats, "clicks"),
         bounced |-> bounced,
         spam_reports |-> StatSum(stats, "spam_reports"),
         unsubscribes |-> StatSum(stats, "unsubscribes"),
         message_activities |-> EmptyDict]

(***************************************************************************)
(* ABTestingAgent.                                                         *)
(***************************************************************************)
\* test_results without an entry for the campaign.  order is the insertion
\* order of the variants dictionary.
NoTestResults == [created |-> FALSE, order |-> <<>>, variants |-> EmptyDict]

NewVariantEntry == [sent |-> 0, opened |-> 0, clicked |-> 0, converted |-> 0]

\* ABTestingAgent.record_event.  The entry's fifth key, "metrics", holds a
\* dictionary and is never passed as an event.
RecordEvent(tr, variant, event, count) ==
    LET t1 == [tr EXCEPT !.created = TRUE]
        t2 == IF variant \notin DOMAIN t1.variants
              THEN [t1 EXCEPT !.order = Append(@, variant),
                              !.variants = Put(@, variant, NewVariantEntry)]
              ELSE t1
    IN  IF event \in DOMAIN NewVariantEntry
        THEN [t2 EXCEPT !.variants[variant][event] = @ + count]
        ELSE t2

\* round(num / den * 100, 2) in hundredths of a percent (Python rounds an
\* exact half to the even neighbour).
RoundedRate(num, den) ==
    LET n == num * 10000
        q == n \div den
        r == n % den
    IN  IF 2 * r < den THEN q
        ELSE IF 2 * r > den THEN q + 1
        ELSE IF q % 2 = 0 THEN q ELSE q + 1

\* A rate cut to two decimals instead of rounded.
TruncatedRate(num, den) == IF den > 0 THEN (num * 10000) \div den ELSE 0

Rate(num, den) == IF den > 0 THEN RoundedRate(num, den) ELSE 0

VariantMetrics(data) ==
    [sent |-> data.sent, opened |-> data.opened, clicked |-> data.clicked,
     converted |-> data.converted,
     open_rate |-> Rate(data.opened, data.sent),
     click_rate |-> Rate(data.clicked, data.sent),
     conversion_rate |-> Rate(data.converted, data.sent),
     click_through_rate |-> Rate(data.clicked, data.opened)]

\* The ab_results of a fresh campaign state: {}.
NoResults == [error |-> FALSE, order |-> <<>>, rows |-> EmptyDict]

\* ABTestingAgent.calculate_metrics: the error dictionary, or one row per
\* variant in insertion order.
CalculateMetrics(tr) ==
    IF ~tr.created THEN [error |-> TRUE, order |-> <<>>, rows |-> EmptyDict]
    ELSE [error |-> FALSE, order |-> tr.order,
          rows |-> [l \in DOMAIN tr.variants |-> VariantMetrics(tr.variants[l])]]

RECURSIVE WinnerLoop(_, _, _, _, _)
WinnerLoop(metrics, primary_metric, i, winner, best_score) ==
    IF i > Len(metrics.order) THEN winner
    ELSE LET variant == metrics.order[i]
             score == metrics.rows[variant][primary_metric]
         IN  IF score > best_score
             THEN WinnerLoop(metrics, primary_metric, i + 1, variant, score)
             ELSE WinnerLoop(metrics, primary_metric, i + 1, winner, best_score)

\* ABTestingAgent.get_winner; "none" is Python's None.
GetWinner(tr, primary_metric) ==
    LET metrics == CalculateMetrics(tr)
    IN  IF metrics.error THEN "none"
        ELSE WinnerLoop(metrics, primary_metric, 1, "none", -1)

(***************************************************************************)
(* CampaignOrchestrator: the operations on a campaign state.  An operation *)
(* works on st = [cs |-> the campaign state dictionary, tr |-> the A/B     *)
(* agent's test_results] and yields the set of results the environment's   *)
(* answers allow.                                                          *)
(***************************************************************************)
\* The content of a variant: {} ("empty") or a generated dictionary.
EmptyContent == "empty"
Content == "content"

NoError == ""

VariantSentStatus(variant) == "variant_" \o variant \o "_sent"
WinnerStatus(winner) == "completed_winner_" \o winner

\* The campaign_report of a fresh campaign state: {}.
NoReport == [generated |-> FALSE, performance |-> NoResults]

\* list(ab_groups.keys()): groups are created in the order A, B, C.
GroupKeys(cs) == SelectSeq(VariantLabels, LAMBDA l : l \in DOMAIN cs.ab_test_groups)

\* sendgrid_message_ids.get(variant, []).
MessageIdsOf(cs, variant) == Get(cs.sendgrid_message_ids, variant, <<>>)

\* A metrics block whose fetch lets the provider's failure escape.
FetchRaisesWhenProviderDown(st, variant, reply) ==
    LET metrics == GetCampaignMetrics(MessageIdsOf(st.cs, variant), GetStats(reply))
        t1 == RecordEvent(st.tr, variant, "opened", metrics.opened)
        t2 == RecordEvent(t1, variant, "clicked", metrics.clicked)
        t3 == RecordEvent(t2, variant, "bounced", metrics.bounced)
    IN  IF ~reply.up THEN [st |-> st, raised |-> TRUE]
        ELSE IF reply.logged
        THEN [st |-> [cs |-> [st.cs EXCEPT !.sendgrid_metrics = Put(@, variant, metrics)],
                      tr |-> t3],
              raised |-> FALSE]
        ELSE [st |-> [cs |-> st.cs, tr |-> t3], raised |-> TRUE]

\* The metrics block shared by send_variant and process_results: fetch the
\* variant's metrics, record them with the A/B agent, keep them in the state.
FetchAndRecordMetrics(st, variant, reply) ==
    LET metrics == GetCampaignMetrics(MessageIdsOf(st.cs, variant), GetStats(reply))
        t1 == RecordEvent(st.tr, variant, "opened", metrics.opened)
        t2 == RecordEvent(t1, variant, "clicked", metrics.clicked)
        t3 == RecordEvent(t2, variant, "bounced", metrics.bounced)
    IN  IF reply.logged
        THEN [st |-> [cs |-> [st.cs EXCEPT !.sendgrid_metrics = Put(@, variant, metrics)],
                      tr |-> t3],
              raised |-> FALSE]
        ELSE [st |-> [cs |-> st.cs, tr |-> t3], raised |-> TRUE]

\* int(n * random.uniform(lo, hi)) with lo and hi in hundredths.
UniformShare(n, lo, hi) == ((n * lo) \div 100) .. ((n * hi) \div 100)

\* The simulated metrics of the SMTP path of process_results.
SimulateSmtpMetrics(st, variant) ==
    LET sent == Get(st.tr.variants, variant, NewVariantEntry).sent
    IN  {[cs |-> st.cs,
          tr |-> RecordEvent(RecordEvent(RecordEvent(st.tr, variant, "opened", t[1]),
                                         variant, "clicked", t[2]),
                             variant, "converted", t[3])] :
            t \in {u \in UniformShare(sent, 15, 35) \X (0..sent) \X (0..sent) :
                    /\ u[2] \in UniformShare(u[1], 10, 25)
                    /\ u[3] \in UniformShare(u[2], 5, 15)}}

\* An outcome of part of an operation: the state it left, and whether it
\* raised an exception.
Unraised(st) == [st |-> st, raised |-> FALSE]

\* One turn of process_results' loop over the groups.
ProcessVariant(st, sendgrid, variant, replies) ==
    IF ~st.cs.sent[variant] THEN {Unraised(st)}
    ELSE IF sendgrid
         THEN IF MessageIdsOf(st.cs, variant) # <<>>
              THEN {FetchAndRecordMetrics(st, variant, reply) : reply \in replies[variant]}
              ELSE {Unraised(st)}
         ELSE {Unraised(s) : s \in SimulateSmtpMetrics(st, variant)}

\* The loop; an exception raised in a turn ends it.
RECURSIVE ProcessLoop(_, _, _, _, _)
ProcessLoop(st, sendgrid, keys, i, replies) ==
    IF i > Len(keys) THEN {Unraised(st)}
    ELSE UNION {IF r.raised THEN {r}
                ELSE ProcessLoop(r.st, sendgrid, keys, i + 1, replies) :
                    r \in ProcessVariant(st, sendgrid, keys[i], replies)}

\* process_results' handler of an exception: the error, nothing else.
FailResults(st) ==
    [cs |-> [st.cs EXCEPT !.error = "Failed to process results"], tr |-> st.tr]

\* The end of process_results: results, report, winner, status.
FinishResults(st) ==
    LET results == CalculateMetrics(st.tr)
        winner == GetWinner(st.tr, "open_rate")
    IN  [cs |-> [st.cs EXCEPT !.ab_results = results,
                              !.campaign_report = [generated |-> TRUE,
                                                   performance |-> results],
                              !.status = IF winner # "none" THEN WinnerStatus(winner)
                                         ELSE "completed"],
         tr |-> st.tr]

\* CampaignOrchestrator.process_results.
ProcessResults(st, sendgrid, replies) ==
    {IF r.raised THEN FailResults(r.st) ELSE FinishResults(r.st) :
        r \in ProcessLoop(st, sendgrid, GroupKeys(st.cs), 1, replies)}

\* all_variants and all(campaign_state.get(f"variant_{v}_sent") ...).
AllVariantsSent(cs) ==
    /\ GroupKeys(cs) # <<>>
    /\ \A l \in Range(GroupKeys(cs)) : cs.sent[l]

\* A validation that lets an empty group through.
ValidationIgnoresEmptyGroup(cs, variant) ==
    IF variant \notin DOMAIN cs.ab_test_groups \/ variant \notin DOMAIN cs.email_variants
    THEN "Variant not found"
    ELSE IF cs.email_variants[variant] = EmptyContent THEN "No email content found"
    ELSE NoError

\* send_variant's validation: the error it reports, or NoError.
ValidationError(cs, variant) ==
    IF variant \notin DOMAIN cs.ab_test_groups \/ variant \notin DOMAIN cs.email_variants
    THEN "Variant not found"
    ELSE IF cs.ab_test_groups[variant] = <<>> THEN "No recipients found"
    ELSE IF cs.email_variants[variant] = EmptyContent THEN "No email content found"
    ELSE NoError

\* The tail of send_variant: process the results once every variant is sent.
AfterSend(st, sendgrid, replies) ==
    IF AllVariantsSent(st.cs) THEN ProcessResults(st, sendgrid, replies) ELSE {st}

\* A send_batch that skips a recipient without an address without counting
\* the skip as a failure.
DispatchBatchSkipsUncounted(sendgrid, cs, variant, outcome) ==
    LET recipients == cs.ab_test_groups[variant]
        results == IF sendgrid THEN SendGridSendBatch(recipients, outcome).results
                   ELSE SmtpSendBatch(recipients, outcome).results
        skipped == {i \in 1..Len(recipients) : recipients[i].email = NoEmail}
    IN  [results EXCEPT !.failed = @ - Cardinality(skipped)]

\* The send_batch call of send_variant: the results dictionary.
DispatchBatch(sendgrid, cs, variant, outcome) ==
    IF sendgrid THEN SendGridSendBatch(cs.ab_test_groups[variant], outcome).results
    ELSE SmtpSendBatch(cs.ab_test_groups[variant], outcome).results

\* send_variant after send_batch returned, with the SendGrid sender: keep the
\* results and the message ids, record the sends, fetch the metrics, mark the
\* variant sent.
RecordSendGrid(st, variant, send, replies) ==
    LET message_ids == [i \in 1..Len(send.message_ids) |-> send.message_ids[i].message_id]
        c1 == [st.cs EXCEPT !.send_results = Put(@, variant, send),
                            !.sendgrid_message_ids = Put(@, variant, message_ids)]
        t1 == IF send.sent > 0 THEN RecordEvent(st.tr, variant, "sent", send.sent)
              ELSE st.tr
        c2 == IF send.sent = 0 /\ send.total > 0
              THEN [c1 EXCEPT !.error = "Failed to send emails"] ELSE c1
        fetched == IF message_ids # <<>>
                   THEN {FetchAndRecordMetrics([cs |-> c2, tr |-> t1], variant, reply).st :
                            reply \in replies[variant]}
                   ELSE {[cs |-> c2, tr |-> t1]}
    IN  {[cs |-> [s.cs EXCEPT !.status = VariantSentStatus(variant),
                              !.sent[variant] = TRUE],
          tr |-> s.tr] : s \in fetched}

\* send_variant after send_batch returned, with the SMTP sender.
RecordSmtp(st, variant, send) ==
    {[cs |-> [st.cs EXCEPT !.send_results = Put(@, variant, send),
                           !.status = VariantSentStatus(variant),
                           !.sent[variant] = TRUE],
      tr |-> RecordEvent(st.tr, variant, "sent", send.sent)]}

\* A send_variant that starts the send results afresh, losing the results of
\* the labels dispatched before.
RecordSendForgetsOthers(st, sendgrid, variant, send, replies) ==
    LET fresh == [st EXCEPT !.cs.send_results = EmptyDict]
    IN  IF sendgrid THEN RecordSendGrid(fresh, variant, send, replies)
        ELSE RecordSmtp(fresh, variant, send)

RecordSend(st, sendgrid, variant, send, replies) ==
    IF sendgrid THEN RecordSendGrid(st, variant, send, replies)
    ELSE RecordSmtp(st, variant, send)

\* A send_variant that dispatches only what the deliverability check passed.
DispatchesOnlyWhenCheckPassed(cs, variant) ==
    /\ ValidationError(cs, variant) = NoError
    /\ variant \in DOMAIN cs.deliverability_check
    /\ cs.deliverability_check[variant].passed

\* Does send_variant reach its send_batch call?
Dispatches(cs, variant) == ValidationError(cs, variant) = NoError

\* send_variant's early return: only the error is set.
RejectVariant(st, variant) ==
    [cs |-> [st.cs EXCEPT !.error = ValidationError(st.cs, variant)], tr |-> st.tr]

\* CampaignOrchestrator.send_variant.  outcome is what the recipients' sends
\* meet; first and later are what the metrics provider may answer for each
\* label to the fetch that follows the batch and to those of process_results.
SendVariant(st, sendgrid, variant, outcome, first, later) ==
    IF ~Dispatches(st.cs, variant) THEN {RejectVariant(st, variant)}
    ELSE UNION {AfterSend(s, sendgrid, later) :
                    s \in RecordSend(st, sendgrid, variant,
                                     DispatchBatch(sendgrid, st.cs, variant, outcome),
                                     first)}

(***************************************************************************)
(* ABTestingAgent.create_test_groups on the shuffled list.                 *)
(***************************************************************************)

\* Python's a // b for a >= 0 and b # 0: the quotient rounded down.
FloorDiv(a, b) == IF b > 0 THEN a \div b ELSE -((a + (-b) - 1) \div (-b))

\* Python's s[start:stop] with 0-based bounds: a negative bound counts from
\* the end, and bounds beyond the list are cut to it.
PyIndex(i, len) == IF i < 0 THEN Max(0, len + i) ELSE Min(i, len)
PySlice(s, start, stop) ==
    LET first == PyIndex(start, Len(s))
        last == PyIndex(stop, Len(s))
    IN  IF first < last THEN SubSeq(s, first + 1, last) ELSE <<>>

\* A split whose first group, not the last, takes the remainder.
CreateTestGroupsRemainderFirst(shuffled, num_variants) ==
    LET n == Min(num_variants, 3)
        group_size == FloorDiv(Len(shuffled), n)
        variant_labels == PySlice(VariantLabels, 0, n)
        extra == Len(shuffled) - Len(variant_labels) * group_size
    IN  [l \in Range(variant_labels) |->
            LET i == CHOOSE j \in 1..Len(variant_labels) : variant_labels[j] = l
                start_idx == (i - 1) * group_size
            IN  IF i = 1
                THEN PySlice(shuffled, 0, group_size + extra)
                ELSE PySlice(shuffled, start_idx + extra, start_idx + extra + group_size)]

\* A split whose last group is cut to group_size like the others.
CreateTestGroupsDropsRemainder(shuffled, num_variants) ==
    LET n == Min(num_variants, 3)
        group_size == FloorDiv(Len(shuffled), n)
        variant_labels == PySlice(VariantLabels, 0, n)
    IN  [l \in Range(variant_labels) |->
            LET i == CHOOSE j \in 1..Len(variant_labels) : variant_labels[j] = l
                start_idx == (i - 1) * group_size
            IN  PySlice(shuffled, start_idx, start_idx + group_size)]

\* create_test_groups when it returns.  start_idx and the label index i - 1
\* are 0-based as in the source.
CreateTestGroups(shuffled, num_variants) ==
    LET n == Min(num_variants, 3)
        group_size == FloorDiv(Len(shuffled), n)
        variant_labels == PySlice(VariantLabels, 0, n)
    IN  [l \in Range(variant_labels) |->
            LET i == CHOOSE j \in 1..Len(variant_labels) : variant_labels[j] = l
                start_idx == (i - 1) * group_size
            IN  IF i = Len(variant_labels)
                THEN PySlice(shuffled, start_idx, Len(shuffled))
                ELSE PySlice(shuffled, start_idx, start_idx + group_size)]

\* create_test_groups raises ZeroDivisionError when the count is 0.
CreateTestGroupsRaises(num_variants) == Min(num_variants, 3) = 0

(***************************************************************************)
(* CampaignOrchestrator.run_campaign: the workflow's nodes.                *)
(***************************************************************************)
NoStrategy == "none"
Strategy == "strategy"
Nodes == <<"create_strategy", "segment_audience", "generate_content",
           "check_deliverability">>

\* run_campaign's initial_state; the keys the dispatch adds later read as
\* their .get defaults.
InitialState ==
    [status |-> "initialized",
     error |-> NoError,
     strategy |-> NoStrategy,
     selected_recipients |-> <<>>,
     ab_test_groups |-> EmptyDict,
     email_variants |-> EmptyDict,
     deliverability_check |-> EmptyDict,
     sent |-> [l \in Labels |-> FALSE],
     send_results |-> EmptyDict,
     sendgrid_message_ids |-> EmptyDict,
     sendgrid_metrics |-> EmptyDict,
     ab_results |-> NoResults,
     campaign_report |-> NoReport]

\* _create_strategy; ok is whether the strategy agent returned.
CreateStrategyNode(cs, ok) ==
    IF ok THEN [cs EXCEPT !.strategy = Strategy, !.status = "strategy_created"]
    ELSE [cs EXCEPT !.error = "Strategy creation failed", !.status = "error"]

\* _segment_audience; selected is the segment the agent selected.
SegmentAudienceNode(cs, ok, selected) ==
    IF ok THEN [cs EXCEPT !.selected_recipients = selected,
                          !.status = "audience_segmented"]
    ELSE [cs EXCEPT !.error = "Segmentation failed", !.status = "error"]

\* _generate_content; shuffled is the order random.shuffle leaves the selected
\* recipients in (the list is shuffled in place), failAt the variant whose
\* content generation raises, or "none".
GenerateContentNode(cs, shuffled, failAt) ==
    LET ab_groups == CreateTestGroups(shuffled, 2)
        grouped == [cs EXCEPT !.selected_recipients = shuffled,
                              !.ab_test_groups = ab_groups]
    IN  IF failAt \in DOMAIN ab_groups
        THEN [grouped EXCEPT !.error = "Content generation failed", !.status = "error"]
        ELSE [grouped EXCEPT !.email_variants = [l \in DOMAIN ab_groups |-> Content],
                             !.status = "content_generated"]

\* Can full_check pass for these recipients?  Not with an empty list or with
\* address-less recipients: the validation rate is then 0.
MayPass(recipients) ==
    /\ recipients # <<>>
    /\ \A i \in 1..Len(recipients) : recipients[i].email # NoEmail

\* _check_deliverability; passed is full_check's verdict for each variant.
CheckDeliverabilityNode(cs, ok, passed) ==
    IF ok THEN [cs EXCEPT !.deliverability_check =
                              [l \in DOMAIN cs.email_variants |-> [passed |-> passed[l]]],
                          !.status = "deliverability_checked"]
    ELSE [cs EXCEPT !.error = "Deliverability check failed", !.status = "error"]

\* The verdicts full_check can give for the variants of a state.
Verdicts(cs) ==
    {v \in [DOMAIN cs.email_variants -> BOOLEAN] :
        \A l \in DOMAIN v : v[l] => MayPass(cs.ab_test_groups[l])}

\* run_campaign after workflow.invoke returned.
ReturnedState(final_state) == [final_state EXCEPT !.status = "ready_to_send"]

\* run_campaign when workflow.invoke raised.
FailedRun == [InitialState EXCEPT !.status = "error", !.error = "Workflow failed"]

\* run_campaign as a whole, for one course of its nodes.
RunCampaign(in) ==
    LET s1 == CreateStrategyNode(InitialState, in.strategy_ok)
        s2 == SegmentAudienceNode(s1, in.segment_ok, in.selected)
        s3 == GenerateContentNode(s2, in.shuffled, in.failAt)
        s4 == CheckDeliverabilityNode(s3, in.deliver_ok,
                                      [l \in DOMAIN s3.email_variants |-> in.passed])
    IN  ReturnedState(s4)

(***************************************************************************)
(* Spec: the dispatch life cycle of one campaign state.                    *)
(***************************************************************************)
\* The course of a run in which every node succeeded.
SmoothRun(recipients) ==
    [strategy_ok |-> TRUE, segment_ok |-> TRUE, selected |-> recipients,
     shuffled |-> recipients, failAt |-> "none", deliver_ok |-> TRUE,
     passed |-> MayPass(recipients)]

\* The campaign states this specification starts from: what run_campaign
\* returns after a smooth run, after a failed strategy node, after a failed
\* content node (groups without content) and after a failed workflow (no
\* groups), and a returned state whose content for B a caller emptied.
StartStates(recipients) ==
    {RunCampaign(SmoothRun(recipients)),
     RunCampaign([SmoothRun(recipients) EXCEPT !.strategy_ok = FALSE]),
     RunCampaign([SmoothRun(recipients) EXCEPT !.failAt = "A"]),
     FailedRun,
     [RunCampaign(SmoothRun(recipients)) EXCEPT !.email_variants["B"] = EmptyContent]}

NoCalls == [send_batch |-> [l \in Labels |-> 0], process_results |-> 0]
NoCall == [op |-> "none", variant |-> "none", available |-> TRUE]
TotalCalls(c) == c.send_batch["A"] + c.send_batch["B"] + c.send_batch["C"]
                 + c.process_results

IdleBatch == [pc |-> "unused", sendgrid |-> TRUE, recipients |-> <<>>,
              outcome |-> <<>>, results |-> EmptySendGridResults(<<>>),
              attempted |-> <<>>]
IdleGrouping == [pc |-> "unused", recipients |-> <<>>, num_variants |-> 1,
                 groups |-> EmptyDict]
IdleAgent == [pc |-> "unused"]
IdleReport == [pc |-> "unused"]
IdleWebhook == [pc |-> "unused"]
IdleCaller == [pc |-> "unused", pending |-> {}]
IdleThreads == <<>>
IdlePipeline == [pc |-> "unused", log |-> <<>>, stages |-> <<>>]
NothingFed == [label |-> "none", counter |-> "none", values |-> <<>>]

\* The providers a campaign can meet: out of reach, or answering the opens
\* of one period.
Providers ==
    {ProviderDown} \cup {[up |-> TRUE, stats |-> s] : s \in OneDayStats({"opened"}, MaxOpens)}

\* The provider's answers during a campaign's dispatch: its present
\* statistics, whichever label is asked about; the activity log is written
\* or not as the sink allows.
Replies ==
    [l \in Labels |-> {[up |-> provider.up, stats |-> provider.stats, logged |-> sink]}]

Init ==
    /\ use_sendgrid \in BOOLEAN
    /\ \E n \in 0..MaxRecipients, hasEmail \in BOOLEAN :
          campaign_state \in StartStates(UniformRecipients(n, hasEmail))
    /\ test_results = NoTestResults
    /\ provider \in (IF use_sendgrid THEN Providers ELSE {QuietProvider})
    /\ sink \in (IF use_sendgrid THEN BOOLEAN ELSE {TRUE})
    /\ calls = NoCalls
    /\ lastCall = NoCall
    /\ batch = IdleBatch
    /\ grouping = IdleGrouping
    /\ agent = IdleAgent
    /\ report = IdleReport
    /\ webhook = IdleWebhook
    /\ caller = IdleCaller
    /\ threads = IdleThreads
    /\ pipeline = IdlePipeline
    /\ fed = NothingFed


\* The outcomes of one batch when the send capability is or is not available
\* (without it, for instance after a failed authentication, every send fails).
OutcomesWhen(available, sendgrid, recipients) ==
    {o \in BatchOutcomes(SenderOutcomes(sendgrid), recipients) :
        available \/ \A i \in DOMAIN o : o[i] = "failed"}

\* orchestrator.send_variant(campaign_state, variant).
CallSendVariant(variant) ==
    LET st == [cs |-> campaign_state, tr |-> test_results]
        dispatches == Dispatches(campaign_state, variant)
        recipients == IF dispatches THEN campaign_state.ab_test_groups[variant] ELSE <<>>
    IN  /\ dispatches => TotalCalls(calls) < MaxCalls
        /\ \E available \in (IF dispatches THEN BOOLEAN ELSE {TRUE}) :
            \E outcome \in OutcomesWhen(available, use_sendgrid, recipients) :
              \E res \in SendVariant(st, use_sendgrid, variant, outcome, Replies, Replies) :
                /\ campaign_state' = res.cs
                /\ test_results' = res.tr
                /\ lastCall' = [op |-> "send_variant", variant |-> variant,
                                available |-> available]
        /\ calls' = IF dispatches
                    THEN [calls EXCEPT !.send_batch[variant] = @ + 1]
                    ELSE calls
        /\ UNCHANGED <<caller, report, webhook, use_sendgrid, agent, sink, grouping, provider, batch, threads, pipeline, fed>>

\* orchestrator.process_results(campaign_state).
CallProcessResults ==
    /\ TotalCalls(calls) < MaxCalls
    /\ \E res \in ProcessResults([cs |-> campaign_state, tr |-> test_results],
                                 use_sendgrid, Replies) :
          /\ campaign_state' = res.cs
          /\ test_results' = res.tr
    /\ calls' = [calls EXCEPT !.process_results = @ + 1]
    /\ lastCall' = [op |-> "process_results", variant |-> "none", available |-> TRUE]
    /\ UNCHANGED <<caller, report, webhook, use_sendgrid, agent, sink, grouping, provider, batch, threads, pipeline, fed>>

Next ==
    \/ \E variant \in Labels : CallSendVariant(variant)
    \/ CallProcessResults

Spec == Init /\ [][Next]_vars

(***************************************************************************)
(* SpecBatch: one send_batch call of either sender on a recipient list of  *)
(* up to MaxBatch members, any of them without an address.                 *)
(***************************************************************************)
IdleCampaign == InitialState

\* The outcomes of this specification's sends: accepted or failed.
BatchSendOutcomes == {"accepted", "failed"}

InitBatch ==
    /\ use_sendgrid = TRUE
    /\ campaign_state = IdleCampaign
    /\ test_results = NoTestResults
    /\ provider = QuietProvider
    /\ sink = TRUE
    /\ calls = NoCalls
    /\ lastCall = NoCall
    /\ \E sendgrid \in BOOLEAN, n \in 0..MaxBatch :
         \E recipients \in MixedRecipients(n) :
            batch = [pc |-> "ready", sendgrid |-> sendgrid, recipients |-> recipients,
                     outcome |-> <<>>,
                     results |-> EmptySendGridResults(<<>>), attempted |-> <<>>]
    /\ grouping = IdleGrouping
    /\ agent = IdleAgent
    /\ report = IdleReport
    /\ webhook = IdleWebhook
    /\ caller = IdleCaller
    /\ threads = IdleThreads
    /\ pipeline = IdlePipeline
    /\ fed = NothingFed

\* email_sender.send_batch(recipients, content).
CallSendBatch ==
    /\ batch.pc = "ready"
    /\ \E outcome \in BatchOutcomes(BatchSendOutcomes, batch.recipients) :
          LET run == SendBatch(batch.sendgrid, batch.recipients, outcome)
          IN  batch' = [batch EXCEPT !.pc = "returned", !.outcome = outcome,
                                     !.results = run.results,
                                     !.attempted = run.attempted]
    /\ UNCHANGED <<caller, report, webhook, use_sendgrid, agent, sink, grouping, provider, campaign_state, test_results, calls, lastCall,
                   threads, pipeline, fed>>

NextBatch == CallSendBatch

SpecBatch == InitBatch /\ [][NextBatch]_vars

\* The ids of the recipients at the positions of s that satisfy Keep.
IdsWhere(recipients, Keep(_)) ==
    LET kept == SelectSeq(recipients, Keep)
    IN  [i \in 1..Len(kept) |-> kept[i].id]

HasAddress(recipient) == recipient.email # NoEmail
AnyRecipient(recipient) == TRUE

AcceptedCount(recipients, outcome) ==
    Cardinality({i \in 1..Len(recipients) :
                    HasAddress(recipients[i]) /\ outcome[i] = "accepted"})

SendRecordOf(cs, variant) ==
    IF variant \in DOMAIN cs.send_results THEN <<cs.send_results[variant]>> ELSE <<>>

\* C1: a send_variant call for a label that is already marked sent is a
\* no-op: the dispatcher is not invoked again, and the label's send record,
\* sent flag and A/B counters stay what the first call left.
C1_SecondDispatchIsNoOp ==
    [][(/\ lastCall'.op = "send_variant"
        /\ lastCall'.variant \in Labels
        /\ campaign_state.sent[lastCall'.variant])
       => /\ calls'.send_batch = calls.send_batch
          /\ SendRecordOf(campaign_state', lastCall'.variant)
                 = SendRecordOf(campaign_state, lastCall'.variant)
          /\ campaign_state'.sent = campaign_state.sent
          /\ test_results' = test_results]_vars

PerRecipientOf(results) ==
    IF "per_recipient" \in DOMAIN results THEN results.per_recipient ELSE <<>>

\* C6: once a label is marked sent, its per-recipient outcome list holds
\* exactly one entry for each recipient of the label's group, in the group's
\* order and without duplicates, whichever sends failed or had no address.
C6_OneOutcomePerRecipient ==
    \A l \in Labels :
        campaign_state.sent[l] =>
            /\ l \in DOMAIN campaign_state.send_results
            /\ LET group == campaign_state.ab_test_groups[l]
                   listed == PerRecipientOf(campaign_state.send_results[l])
               IN  /\ Len(listed) = Len(group)
                   /\ \A i \in 1..Len(listed) : listed[i].email = group[i].email

\* The send capability was categorically unavailable for a label's dispatch:
\* the last call dispatched the label without it, and no send was accepted.
UnavailableDispatch(l) ==
    /\ lastCall.op = "send_variant"
    /\ lastCall.variant = l
    /\ ~lastCall.available
    /\ l \in DOMAIN campaign_state.send_results
    /\ campaign_state.send_results[l].total > 0
    /\ campaign_state.send_results[l].sent = 0

\* C7: a dispatch during which the send capability is categorically
\* unavailable does not mark the label sent.
C7_UnavailableStaysUnsent ==
    \A l \in Labels : UnavailableDispatch(l) => ~campaign_state.sent[l]

\* A label send_variant must refuse: no group or no content under the label,
\* an empty group, or empty content.
InvalidLabel(cs, l) ==
    \/ l \notin DOMAIN cs.ab_test_groups
    \/ l \notin DOMAIN cs.email_variants
    \/ cs.ab_test_groups[l] = <<>>
    \/ cs.email_variants[l] = EmptyContent

\* C8: send_variant for a label without a group or content, or with an empty
\* group or empty content, fails fast: the dispatcher is not invoked, nothing
\* of the campaign state but the error changes (sent flags, send records and
\* status included), the error is reported, and the A/B counters are left alone.
C8_InvalidLabelFailsFast ==
    [][(/\ lastCall'.op = "send_variant"
        /\ InvalidLabel(campaign_state, lastCall'.variant))
       => /\ calls' = calls
          /\ campaign_state'.error # NoError
          /\ campaign_state' = [campaign_state EXCEPT !.error = campaign_state'.error]
          /\ ~campaign_state'.sent[lastCall'.variant]
          /\ lastCall'.variant \notin DOMAIN campaign_state'.send_results
          /\ test_results' = test_results]_vars

\* The case of C8 happens: after another label was sent, send_variant has
\* refused a label with an empty group and left the status as it was.
C8_EmptyGroupRefused ==
    /\ lastCall.op = "send_variant"
    /\ lastCall.variant = "A"
    /\ InvalidLabel(campaign_state, "A")
    /\ "A" \in DOMAIN campaign_state.ab_test_groups
    /\ campaign_state.ab_test_groups["A"] = <<>>
    /\ campaign_state.error = "No recipients found"
    /\ campaign_state.sent["B"]
    /\ campaign_state.status = VariantSentStatus("B")
    /\ calls.send_batch["A"] = 0


(***************************************************************************)
(* SpecPipeline: run_campaign, one workflow node at a time.                *)
(***************************************************************************)
\* The orders random.shuffle can leave a list in.
Shuffles(s) ==
    {[i \in 1..Len(s) |-> s[p[i]]] :
        p \in {q \in [1..Len(s) -> 1..Len(s)] :
                  \A i, j \in 1..Len(s) : q[i] = q[j] => i = j}}

Logged(node, ok) == Append(pipeline.log, [node |-> node, ok |-> ok])

\* The stages a node goes through, in order: _generate_content first assigns
\* the recipients to the test groups, then generates each group's content.
StagesOf(node) ==
    IF node = "generate_content" THEN <<"create_test_groups", "generate_content">>
    ELSE <<node>>

Staged(node) == pipeline.stages \o StagesOf(node)

InitPipeline ==
    /\ use_sendgrid = TRUE
    /\ campaign_state = InitialState
    /\ test_results = NoTestResults
    /\ provider = QuietProvider
    /\ sink = TRUE
    /\ calls = NoCalls
    /\ lastCall = NoCall
    /\ batch = IdleBatch
    /\ grouping = IdleGrouping
    /\ agent = IdleAgent
    /\ report = IdleReport
    /\ webhook = IdleWebhook
    /\ caller = IdleCaller
    /\ threads = IdleThreads
    /\ pipeline = [pc |-> "create_strategy", log |-> <<>>, stages |-> <<>>]
    /\ fed = NothingFed

RunCreateStrategy ==
    /\ pipeline.pc = "create_strategy"
    /\ \E ok \in BOOLEAN :
          /\ campaign_state' = CreateStrategyNode(campaign_state, ok)
          /\ pipeline' = [pc |-> "segment_audience", log |-> Logged("create_strategy", ok),
                          stages |-> Staged("create_strategy")]
    /\ UNCHANGED <<caller, report, webhook, use_sendgrid, agent, sink, grouping, provider, test_results, calls, lastCall, batch, threads, fed>>

RunSegmentAudience ==
    /\ pipeline.pc = "segment_audience"
    /\ \E ok \in BOOLEAN, n \in 0..MaxRecipients, hasEmail \in BOOLEAN :
          /\ campaign_state' = SegmentAudienceNode(campaign_state, ok,
                                                   UniformRecipients(n, hasEmail))
          /\ pipeline' = [pc |-> "generate_content", log |-> Logged("segment_audience", ok),
                          stages |-> Staged("segment_audience")]
    /\ UNCHANGED <<caller, report, webhook, use_sendgrid, agent, sink, grouping, provider, test_results, calls, lastCall, batch, threads, fed>>

RunGenerateContent ==
    /\ pipeline.pc = "generate_content"
    /\ \E shuffled \in Shuffles(campaign_state.selected_recipients),
          failAt \in {"none", "A", "B"} :
          /\ campaign_state' = GenerateContentNode(campaign_state, shuffled, failAt)
          /\ pipeline' = [pc |-> "check_deliverability",
                          log |-> Logged("generate_content", failAt = "none"),
                          stages |-> Staged("generate_content")]
    /\ UNCHANGED <<caller, report, webhook, use_sendgrid, agent, sink, grouping, provider, test_results, calls, lastCall, batch, threads, fed>>

\* full_check can only raise when there is a variant to check.
RunCheckDeliverability ==
    /\ pipeline.pc = "check_deliverability"
    /\ \E ok \in {TRUE} \cup {campaign_state.email_variants = EmptyDict},
          passed \in Verdicts(campaign_state) :
          /\ campaign_state' = CheckDeliverabilityNode(campaign_state, ok, passed)
          /\ pipeline' = [pc |-> "end", log |-> Logged("check_deliverability", ok),
                          stages |-> Staged("check_deliverability")]
    /\ UNCHANGED <<caller, report, webhook, use_sendgrid, agent, sink, grouping, provider, test_results, calls, lastCall, batch, threads, fed>>

\* workflow.invoke returned: run_campaign sets the status and returns.
ReturnFinalState ==
    /\ pipeline.pc = "end"
    /\ campaign_state' = ReturnedState(campaign_state)
    /\ pipeline' = [pipeline EXCEPT !.pc = "returned"]
    /\ UNCHANGED <<caller, report, webhook, use_sendgrid, agent, sink, grouping, provider, test_results, calls, lastCall, batch, threads, fed>>

\* workflow.invoke raised outside the nodes' own handlers: run_campaign
\* returns the initial state with the error.
ReturnFailedRun ==
    /\ pipeline.pc \in Range(Nodes)
    /\ campaign_state' = FailedRun
    /\ pipeline' = [pc |-> "returned", log |-> Logged("invoke", FALSE),
                    stages |-> pipeline.stages]
    /\ UNCHANGED <<caller, report, webhook, use_sendgrid, agent, sink, grouping, provider, test_results, calls, lastCall, batch, threads, fed>>

NextPipeline ==
    \/ RunCreateStrategy
    \/ RunSegmentAudience
    \/ RunGenerateContent
    \/ RunCheckDeliverability
    \/ ReturnFinalState
    \/ ReturnFailedRun

SpecPipeline == InitPipeline /\ [][NextPipeline]_vars

\* C3: once a stage of run_campaign has failed, no later stage executes: a
\* failed stage is the last one of the run.
C3_NoStageAfterFailure ==
    \A i \in 1..Len(pipeline.log) :
        ~pipeline.log[i].ok => i = Len(pipeline.log)

EveryStageSucceeded ==
    /\ Len(pipeline.log) = Len(Nodes)
    /\ \A i \in 1..Len(pipeline.log) : pipeline.log[i].ok

\* C4: run_campaign returns the status "ready_to_send" only when every stage
\* succeeded; otherwise the returned status is "error" and the error text is
\* not empty.
C4_ReadyOnlyWhenAllSucceeded ==
    pipeline.pc = "returned" =>
        IF EveryStageSucceeded THEN campaign_state.status = "ready_to_send"
        ELSE /\ campaign_state.status = "error"
             /\ campaign_state.error # NoError


(***************************************************************************)
(* SpecConc: two callers run send_variant on the same orchestrator and the *)
(* same campaign state; a caller can be overtaken wherever send_variant    *)
(* waits for the network (send_batch, the metrics fetch).                  *)
(***************************************************************************)
Callers == {1, 2}
NewCaller(label) == [label |-> label, pc |-> "start", send |-> <<>>]

InitConc ==
    /\ use_sendgrid \in BOOLEAN
    /\ \E n \in 0..MaxRecipients, hasEmail \in BOOLEAN :
          campaign_state = RunCampaign(SmoothRun(UniformRecipients(n, hasEmail)))
    /\ test_results = NoTestResults
    /\ provider \in (IF use_sendgrid THEN Providers ELSE {QuietProvider})
    /\ sink \in (IF use_sendgrid THEN BOOLEAN ELSE {TRUE})
    /\ calls = NoCalls
    /\ lastCall = NoCall
    /\ batch = IdleBatch
    /\ grouping = IdleGrouping
    /\ agent = IdleAgent
    /\ report = IdleReport
    /\ webhook = IdleWebhook
    /\ caller = IdleCaller
    /\ \E l1, l2 \in {"A", "B"} : threads = <<NewCaller(l1), NewCaller(l2)>>
    /\ pipeline = IdlePipeline
    /\ fed = NothingFed

\* send_variant from its entry to the return of send_batch: the validation,
\* then the batch; the results are still the caller's own.
CallerSends(t) ==
    LET variant == threads[t].label
        st == [cs |-> campaign_state, tr |-> test_results]
    IN  /\ threads[t].pc = "start"
        /\ IF ~Dispatches(campaign_state, variant)
           THEN /\ campaign_state' = RejectVariant(st, variant).cs
                /\ threads' = [threads EXCEPT ![t].pc = "done"]
                /\ calls' = calls
           ELSE \E outcome \in BatchOutcomes(SenderOutcomes(use_sendgrid),
                                            campaign_state.ab_test_groups[variant]) :
                  /\ threads' = [threads EXCEPT
                                    ![t].pc = "record",
                                    ![t].send = <<DispatchBatch(use_sendgrid, campaign_state,
                                                                variant, outcome)>>]
                  /\ calls' = [calls EXCEPT !.send_batch[variant] = @ + 1]
                  /\ campaign_state' = campaign_state
        /\ UNCHANGED <<caller, report, webhook, use_sendgrid, agent, sink, grouping, provider, test_results, lastCall, batch, pipeline, fed>>

\* send_variant from the return of send_batch to the sent flag.
CallerRecords(t) ==
    /\ threads[t].pc = "record"
    /\ \E res \in RecordSend([cs |-> campaign_state, tr |-> test_results], use_sendgrid,
                             threads[t].label, threads[t].send[1], Replies) :
          /\ campaign_state' = res.cs
          /\ test_results' = res.tr
    /\ threads' = [threads EXCEPT ![t].pc = "tail"]
    /\ UNCHANGED <<caller, report, webhook, use_sendgrid, agent, sink, grouping, provider, calls, lastCall, batch, pipeline, fed>>

\* The tail of send_variant: the look at the other variants' sent flags and,
\* when all are set, process_results.
CallerFinishes(t) ==
    LET st == [cs |-> campaign_state, tr |-> test_results]
    IN  /\ threads[t].pc = "tail"
        /\ \E res \in AfterSend(st, use_sendgrid, Replies) :
              /\ campaign_state' = res.cs
              /\ test_results' = res.tr
        /\ calls' = IF AllVariantsSent(campaign_state)
                    THEN [calls EXCEPT !.process_results = @ + 1]
                    ELSE calls
        /\ threads' = [threads EXCEPT ![t].pc = "done"]
        /\ UNCHANGED <<caller, report, webhook, use_sendgrid, agent, sink, grouping, provider, lastCall, batch, pipeline, fed>>

NextConc ==
    \E t \in Callers :
        \/ CallerSends(t)
        \/ CallerRecords(t)
        \/ CallerFinishes(t)

SpecConc == InitConc /\ [][NextConc]_vars

\* C2: of two send_variant calls that run concurrently for the same label, at
\* most one invokes the dispatcher.
C2_AtMostOneConcurrentDispatch ==
    threads[1].label = threads[2].label =>
        calls.send_batch[threads[1].label] <= 1


(***************************************************************************)
(* SpecMetrics: the reconciliations of one campaign sent through SendGrid. *)
(* The provider's answers vary in one counter of one label, both chosen at *)
(* the start; fed keeps the counts it answered for them, in order.         *)
(***************************************************************************)
\* What the provider answers for the counter when its count is v.
Answer(counter, v) ==
    [up |-> TRUE, stats |-> <<OnePeriod(PeriodKey[counter], v)>>]

\* The answers to one fetch for each label: the count v for the observed
\* label's counter, and no activity for the other labels.
AnswersWith(v) ==
    [l \in Labels |->
        LET answer == IF l = fed.label THEN Answer(fed.counter, v)
                      ELSE [up |-> TRUE, stats |-> <<ZeroPeriod>>]
        IN  {[up |-> answer.up, stats |-> answer.stats, logged |-> sink]}]

AllAccepted(recipients) == [i \in 1..Len(recipients) |-> "accepted"]

InitMetrics ==
    /\ use_sendgrid = TRUE
    /\ campaign_state = RunCampaign(SmoothRun(UniformRecipients(MaxRecipients, TRUE)))
    /\ test_results = NoTestResults
    /\ provider = QuietProvider
    /\ sink = TRUE
    /\ calls = NoCalls
    /\ lastCall = NoCall
    /\ batch = IdleBatch
    /\ grouping = IdleGrouping
    /\ agent = IdleAgent
    /\ report = IdleReport
    /\ webhook = IdleWebhook
    /\ caller = IdleCaller
    /\ threads = IdleThreads
    /\ pipeline = IdlePipeline
    /\ \E l \in {"A", "B"}, c \in Counters :
          fed = [label |-> l, counter |-> c, values |-> <<>>]

\* The dashboard's send button of a variant not sent yet: send_variant, every
\* send accepted.  The observed label is reconciled after its own batch and,
\* when this was the last variant, once more by process_results.
MetricsSendVariant(variant) ==
    LET st == [cs |-> campaign_state, tr |-> test_results]
        last == \A l \in DOMAIN campaign_state.ab_test_groups \ {variant} :
                    campaign_state.sent[l]
    IN  /\ variant \in DOMAIN campaign_state.ab_test_groups
        /\ ~campaign_state.sent[variant]
        /\ \E v1, v2 \in 0..MaxStat :
              LET answered == (IF variant = fed.label THEN <<v1>> ELSE <<>>)
                              \o (IF last THEN <<v2>> ELSE <<>>)
              IN  /\ Len(fed.values) + Len(answered) <= MaxReconciles
                  /\ variant # fed.label => v1 = 0
                  /\ ~last => v2 = 0
                  /\ \E res \in SendVariant(st, TRUE, variant,
                                            AllAccepted(campaign_state.ab_test_groups[variant]),
                                            AnswersWith(v1), AnswersWith(v2)) :
                        /\ campaign_state' = res.cs
                        /\ test_results' = res.tr
                  /\ fed' = [fed EXCEPT !.values = @ \o answered]
                  /\ provider' = IF answered = <<>> THEN provider
                                 ELSE Answer(fed.counter, answered[Len(answered)])
        /\ calls' = [calls EXCEPT !.send_batch[variant] = @ + 1]
        /\ lastCall' = [op |-> "send_variant", variant |-> variant, available |-> TRUE]
        /\ UNCHANGED <<caller, report, webhook, use_sendgrid, agent, sink, grouping, batch, threads, pipeline>>

\* process_results on the campaign state: every sent label is reconciled.
MetricsProcessResults ==
    LET st == [cs |-> campaign_state, tr |-> test_results]
        reconciled == campaign_state.sent[fed.label]
    IN  /\ TotalCalls(calls) < MaxReconciles
        /\ \E v \in 0..MaxStat :
              /\ reconciled => Len(fed.values) < MaxReconciles
              /\ ~reconciled => v = 0
              /\ \E res \in ProcessResults(st, TRUE, AnswersWith(v)) :
                    /\ campaign_state' = res.cs
                    /\ test_results' = res.tr
              /\ fed' = [fed EXCEPT !.values = IF reconciled THEN Append(@, v) ELSE @]
              /\ provider' = IF reconciled THEN Answer(fed.counter, v) ELSE provider
        /\ calls' = [calls EXCEPT !.process_results = @ + 1]
        /\ lastCall' = [op |-> "process_results", variant |-> "none", available |-> TRUE]
        /\ UNCHANGED <<caller, report, webhook, use_sendgrid, agent, sink, grouping, batch, threads, pipeline>>

NextMetrics ==
    \/ \E variant \in Labels : MetricsSendVariant(variant)
    \/ MetricsProcessResults

SpecMetrics == InitMetrics /\ [][NextMetrics]_vars

\* The metrics snapshot of the campaign state: a label's counter, 0 before
\* the label's first reconciliation.
Snapshot(cs, l, c) ==
    IF l \in DOMAIN cs.sendgrid_metrics THEN cs.sendgrid_metrics[l][c] ELSE 0

\* The A/B record's count of an event for a label.
Recorded(tr, l, event) ==
    IF l \in DOMAIN tr.variants THEN tr.variants[l][event] ELSE 0

IsPrefix(s, t) == Len(s) <= Len(t) /\ s = SubSeq(t, 1, Len(s))

RECURSIVE SeqMax(_)
SeqMax(s) == IF s = <<>> THEN 0 ELSE Max(Head(s), SeqMax(Tail(s)))

\* C9: when the provider's successive answers for a label's counter are 5,
\* then 3, then 8, the stored value is 5, stays 5 (the stale 3 is discarded)
\* and ends at 8: the largest answer so far, in the snapshot and, for opens
\* and clicks, in the A/B record, where the answers are not summed.
C9_StaleResponseDiscarded ==
    (fed.values # <<>> /\ IsPrefix(fed.values, <<5, 3, 8>>)) =>
        /\ Snapshot(campaign_state, fed.label, fed.counter) = SeqMax(fed.values)
        /\ fed.counter \in {"opened", "clicked"} =>
               Recorded(test_results, fed.label, fed.counter) = SeqMax(fed.values)

\* C10: no counter of a label's metrics snapshot decreases from one
\* reconciliation of the label to the next.
C10_SnapshotNeverDecreases ==
    [][\A l \in DOMAIN campaign_state.sendgrid_metrics, c \in Counters :
          Snapshot(campaign_state', l, c) >= Snapshot(campaign_state, l, c)]_vars


(***************************************************************************)
(* Claims about finalization, under Spec.                                  *)
(***************************************************************************)
\* The stages of a campaign, read from its status.
Finalized(cs) ==
    cs.status = "completed" \/ \E l \in Labels : cs.status = WinnerStatus(l)

PartiallyDispatched(cs) == \E l \in Labels : cs.status = VariantSentStatus(l)

\* The labels whose mails the provider can report on.
TrackedLabels(cs) ==
    {l \in DOMAIN cs.sendgrid_message_ids : cs.sendgrid_message_ids[l] # <<>>}

\* C11: the send_variant call that marks the last unsent label sent also
\* finalizes: it reconciles the metrics of every label the provider tracks,
\* then aggregates (the results are those of the counters after the
\* reconciliation), generates the report and returns a completed status.
C11_LastDispatchFinalizes ==
    [][(/\ lastCall'.op = "send_variant"
        /\ ~AllVariantsSent(campaign_state)
        /\ AllVariantsSent(campaign_state'))
       => /\ Finalized(campaign_state')
          /\ campaign_state'.campaign_report.generated
          /\ campaign_state'.ab_results = CalculateMetrics(test_results')
          /\ use_sendgrid =>
                TrackedLabels(campaign_state') \subseteq
                    DOMAIN campaign_state'.sendgrid_metrics]_vars


\* C12: a campaign is finalized only when every label of its test groups
\* carries the sent flag; while some label is unsent the status is not a
\* completed one, whichever of send_variant and process_results was invoked.
C12_FinalizedOnlyWhenAllSent ==
    Finalized(campaign_state) =>
        \A l \in DOMAIN campaign_state.ab_test_groups : campaign_state.sent[l]


\* C13: send_variant or process_results invoked on a finalized campaign (a
\* completed status with every label sent) sends no mail, records no metric
\* event and returns the state unchanged.
C13_FinalizedIsInert ==
    [][(/\ Finalized(campaign_state)
        /\ AllVariantsSent(campaign_state)
        /\ lastCall'.op \in {"send_variant", "process_results"})
       => /\ campaign_state' = campaign_state
          /\ test_results' = test_results
          /\ calls'.send_batch = calls.send_batch]_vars


(***************************************************************************)
(* SpecGroups: ABTestingAgent.create_test_groups called once on a list of  *)
(* distinct recipients.                                                    *)
(***************************************************************************)
InitGroups ==
    /\ use_sendgrid = TRUE
    /\ campaign_state = IdleCampaign
    /\ test_results = NoTestResults
    /\ provider = QuietProvider
    /\ sink = TRUE
    /\ calls = NoCalls
    /\ lastCall = NoCall
    /\ batch = IdleBatch
    /\ \E k \in 0..MaxGroupInput, n \in (1 - MaxShortfall)..MaxNumVariants :
          grouping = [pc |-> "ready", recipients |-> UniformRecipients(k, TRUE),
                      num_variants |-> n, groups |-> EmptyDict]
    /\ agent = IdleAgent
    /\ report = IdleReport
    /\ webhook = IdleWebhook
    /\ caller = IdleCaller
    /\ threads = IdleThreads
    /\ pipeline = IdlePipeline
    /\ fed = NothingFed

\* ab_testing_agent.create_test_groups(recipients, num_variants): the list
\* is shuffled in place, then cut; a count of 0 raises before anything is
\* shuffled.
CallCreateTestGroups ==
    /\ grouping.pc = "ready"
    /\ IF CreateTestGroupsRaises(grouping.num_variants)
       THEN grouping' = [grouping EXCEPT !.pc = "raised"]
       ELSE \E shuffled \in Shuffles(grouping.recipients) :
               grouping' = [grouping EXCEPT
                               !.pc = "done",
                               !.recipients = shuffled,
                               !.groups = CreateTestGroups(shuffled, grouping.num_variants)]
    /\ UNCHANGED <<caller, report, webhook, use_sendgrid, agent, sink, provider, campaign_state, test_results, calls,
                   lastCall, batch, threads, pipeline, fed>>

NextGroups == CallCreateTestGroups

SpecGroups == InitGroups /\ [][NextGroups]_vars

\* The sizes of the groups, in label order.
GroupSizes(groups) ==
    LET keys == SelectSeq(VariantLabels, LAMBDA l : l \in DOMAIN groups)
    IN  [i \in 1..Len(keys) |-> Len(groups[keys[i]])]

\* C14: for every list size k (0 included) and every number of variants
\* n in 1..3 (a larger n is cut to 3), the groups create_test_groups returns
\* partition the input: their sizes sum to k, no recipient is in two groups,
\* and together they hold exactly the input's recipients.
C14_GroupsPartitionInput ==
    grouping.pc = "done" /\ grouping.num_variants >= 1 =>
        LET g == grouping.groups
        IN  /\ SeqSum(GroupSizes(g)) = Len(grouping.recipients)
            /\ \A l, m \in DOMAIN g : l # m => Range(g[l]) \cap Range(g[m]) = {}
            /\ UNION {Range(g[l]) : l \in DOMAIN g} = Range(grouping.recipients)

\* Five recipients cut in three: the last group takes the remainder.
C14_RemainderInLastGroup ==
    /\ grouping.pc = "done"
    /\ Len(grouping.recipients) = 5
    /\ grouping.num_variants = 3
    /\ GroupSizes(grouping.groups) = <<1, 1, 3>>


(***************************************************************************)
(* Claims about the winner and the reconciliation's failures, under Spec.  *)
(***************************************************************************)
LabelIndex(l) == CHOOSE i \in 1..Len(VariantLabels) : VariantLabels[i] = l

\* C15: the winner named in a completed status is the first label, in the
\* fixed order A, B, C, that attains the maximum open rate of the aggregated
\* results: at a tie A beats B, whatever the order of dispatch.
C15_WinnerIsFirstMaxInLabelOrder ==
    \A w \in Labels :
        campaign_state.status = WinnerStatus(w) =>
            LET rows == campaign_state.ab_results.rows
            IN  \A l \in DOMAIN rows :
                   \/ rows[l].open_rate < rows[w].open_rate
                   \/ /\ rows[l].open_rate = rows[w].open_rate
                      /\ LabelIndex(w) <= LabelIndex(l)


\* The snapshot get_campaign_metrics returns when the provider gave nothing:
\* every mail counted as delivered, every other counter zero.
IsFallbackSnapshot(snapshot, message_ids) ==
    /\ snapshot.total_sent = Len(message_ids)
    /\ snapshot.delivered = Len(message_ids)
    /\ \A c \in Counters \ {"delivered"} : snapshot[c] = 0

\* C16: a failure of the provider during a reconciliation is not propagated.
\* With the provider down (and the activity log writable, so that the
\* provider is the only failure), send_variant and process_results record no
\* processing error, and every sent label the provider tracks still gets the
\* snapshot get_campaign_metrics returns.
C16_ProviderFailureNotPropagated ==
    [][(/\ use_sendgrid /\ ~provider.up /\ sink
        /\ lastCall'.op \in {"send_variant", "process_results"})
       => /\ campaign_state'.error # "Failed to process results"
          /\ lastCall'.op = "process_results" =>
                campaign_state'.error = campaign_state.error
          /\ \A l \in TrackedLabels(campaign_state') :
                campaign_state'.sent[l] =>
                   /\ l \in DOMAIN campaign_state'.sendgrid_metrics
                   /\ IsFallbackSnapshot(campaign_state'.sendgrid_metrics[l],
                                         campaign_state'.sendgrid_message_ids[l])]_vars

\* The last label was dispatched while the provider was down: the campaign
\* is completed without an error and the label has its snapshot.
C16_CompletedWhileProviderDown ==
    /\ use_sendgrid /\ ~provider.up /\ sink
    /\ lastCall.op = "send_variant"
    /\ lastCall.variant \in TrackedLabels(campaign_state)
    /\ lastCall.variant \in DOMAIN campaign_state.sendgrid_metrics
    /\ campaign_state.error = NoError
    /\ Finalized(campaign_state)


\* C17: a failure of the activity-log sink is tolerated.  When the log
\* cannot be written, a send_variant that dispatched a label the provider
\* tracks still marks it sent and stores its snapshot, and process_results
\* still aggregates, generates the report and reaches a completed status
\* without recording an error.
C17_SinkFailureTolerated ==
    [][(use_sendgrid /\ ~sink)
       => /\ (/\ lastCall'.op = "send_variant"
              /\ calls'.send_batch # calls.send_batch
              /\ lastCall'.variant \in TrackedLabels(campaign_state'))
             => /\ campaign_state'.sent[lastCall'.variant]
                /\ lastCall'.variant \in DOMAIN campaign_state'.sendgrid_metrics
          /\ lastCall'.op = "process_results"
             => /\ Finalized(campaign_state')
                /\ campaign_state'.campaign_report.generated
                /\ campaign_state'.ab_results = CalculateMetrics(test_results')
                /\ campaign_state'.error = campaign_state.error]_vars


(***************************************************************************)
(* Claims about the aggregate, the stage order and the error field, under  *)
(* Spec.                                                                   *)
(***************************************************************************)
\* The aggregates process_results can store for the campaign state when the
\* orchestrator's A/B agent holds the counters tr.
AggregatesWith(tr) ==
    {r.cs.ab_results :
        r \in ProcessResults([cs |-> campaign_state, tr |-> tr], use_sendgrid, Replies)}

\* C18: the aggregate computed at finalization is a function of the campaign
\* state alone: the orchestrator instance that dispatched the labels and a
\* newly constructed one (whose A/B agent has recorded nothing) compute the
\* same aggregate from the same campaign state.
C18_AggregateFromStateAlone ==
    AggregatesWith(test_results) = AggregatesWith(NoTestResults)


\* C19: the stage never moves backwards: once a label was dispatched the
\* status never returns to ready_to_send, and once the status is a completed
\* one it never returns to variant_<label>_sent.
C19_StageNeverMovesBack ==
    [][/\ (PartiallyDispatched(campaign_state) \/ Finalized(campaign_state))
          => campaign_state'.status # "ready_to_send"
       /\ Finalized(campaign_state) => ~PartiallyDispatched(campaign_state')]_vars


\* A send_variant step that dispatched its label, had at least one mail
\* accepted and left the campaign in a later stage.
SuccessfulDispatch ==
    /\ lastCall'.op = "send_variant"
    /\ calls'.send_batch # calls.send_batch
    /\ lastCall'.variant \in DOMAIN campaign_state'.send_results
    /\ campaign_state'.send_results[lastCall'.variant].sent > 0
    /\ campaign_state'.sent[lastCall'.variant]
    /\ PartiallyDispatched(campaign_state') \/ Finalized(campaign_state')
    /\ campaign_state'.error # "Failed to process results"

\* C20: an operation that advances the stage successfully clears the error
\* field: after a successful dispatch the campaign state carries no error.
C20_SuccessClearsError ==
    [][SuccessfulDispatch => campaign_state'.error = NoError]_vars


(***************************************************************************)
(* Claims about run_campaign's stages, under SpecPipeline.                 *)
(***************************************************************************)
\* Does the state after hold what the node computed, as the state before
\* did?  (The recipients are compared as a set: generate_content shuffles
\* the selected list in place.)
Preserved(node, before, after) ==
    CASE node = "create_strategy" -> after.strategy = before.strategy
      [] node = "segment_audience" ->
            Range(after.selected_recipients) = Range(before.selected_recipients)
      [] node = "generate_content" ->
            /\ after.ab_test_groups = before.ab_test_groups
            /\ after.email_variants = before.email_variants
      [] node = "check_deliverability" ->
            after.deliverability_check = before.deliverability_check
      [] OTHER -> TRUE

SomeStageFailed(log) == \E i \in DOMAIN log : ~log[i].ok

\* C21: when a stage of run_campaign fails, that step and every later one,
\* the return included, leave unchanged what the earlier successful stages
\* computed (strategy, selected recipients, groups, content), and the state
\* carries an error message.
C21_FailureKeepsEarlierFields ==
    [][SomeStageFailed(pipeline'.log)
       => /\ \A i \in DOMAIN pipeline.log :
                pipeline.log[i].ok =>
                    Preserved(pipeline.log[i].node, campaign_state, campaign_state')
          /\ campaign_state'.error # NoError]_vars


(***************************************************************************)
(* SpecGate: send_variant and process_results on the states run_campaign   *)
(* returns after each verdict the deliverability node can reach: passed or *)
(* not passed for each variant, or no verdict at all when the check        *)
(* raised.                                                                 *)
(***************************************************************************)
GateStates(recipients) ==
    LET s1 == CreateStrategyNode(InitialState, TRUE)
        s2 == SegmentAudienceNode(s1, TRUE, recipients)
        s3 == GenerateContentNode(s2, recipients, "none")
    IN  {ReturnedState(CheckDeliverabilityNode(s3, ok, passed)) :
            ok \in BOOLEAN, passed \in Verdicts(s3)}

InitGate ==
    /\ use_sendgrid \in BOOLEAN
    /\ \E n \in 0..MaxRecipients, hasEmail \in BOOLEAN :
          campaign_state \in GateStates(UniformRecipients(n, hasEmail))
    /\ test_results = NoTestResults
    /\ provider = QuietProvider
    /\ sink = TRUE
    /\ calls = NoCalls
    /\ lastCall = NoCall
    /\ batch = IdleBatch
    /\ grouping = IdleGrouping
    /\ agent = IdleAgent
    /\ report = IdleReport
    /\ webhook = IdleWebhook
    /\ caller = IdleCaller
    /\ threads = IdleThreads
    /\ pipeline = IdlePipeline
    /\ fed = NothingFed

SpecGate == InitGate /\ [][Next]_vars

\* What send_variant requires of a label besides the deliverability result:
\* a non-empty group and non-empty content.
Sendable(cs, l) ==
    /\ l \in DOMAIN cs.ab_test_groups /\ l \in DOMAIN cs.email_variants
    /\ cs.ab_test_groups[l] # <<>>
    /\ cs.email_variants[l] # EmptyContent

\* C22: the deliverability result is advisory.  Whatever the label's check
\* says (passed, not passed, or nothing), send_variant on a label with
\* recipients and content runs the dispatcher once on the whole group and
\* marks the label sent; it leaves the check as it was, and the run that
\* produced the check was returned ready to send.
C22_DeliverabilityIsAdvisory ==
    /\ [][(lastCall'.op = "send_variant" /\ Sendable(campaign_state, lastCall'.variant))
          => /\ calls'.send_batch[lastCall'.variant]
                   = calls.send_batch[lastCall'.variant] + 1
             /\ campaign_state'.sent[lastCall'.variant]
             /\ campaign_state'.send_results[lastCall'.variant].total
                   = Len(campaign_state.ab_test_groups[lastCall'.variant])
             /\ campaign_state'.deliverability_check
                   = campaign_state.deliverability_check]_vars
    /\ [](lastCall.op = "none" => campaign_state.status = "ready_to_send")

\* A label whose check did not pass was dispatched and accepted.
C22_FailedCheckStillDispatched ==
    /\ lastCall.op = "send_variant"
    /\ lastCall.variant \in DOMAIN campaign_state.deliverability_check
    /\ ~campaign_state.deliverability_check[lastCall.variant].passed
    /\ calls.send_batch[lastCall.variant] = 1
    /\ campaign_state.sent[lastCall.variant]
    /\ campaign_state.send_results[lastCall.variant].sent > 0


(***************************************************************************)
(* Claims about the snapshot's counters, under SpecMetrics.                *)
(***************************************************************************)
\* C23: after any reconciliation every counter of a label's metrics snapshot
\* (delivered, opened, clicked, bounced, spam reports, unsubscribes) is a
\* non-negative integer, whatever non-negative counts the provider answered
\* and however many messages were dispatched.
C23_SnapshotCountersNonNegative ==
    \A l \in DOMAIN campaign_state.sendgrid_metrics :
        \A c \in Counters : campaign_state.sendgrid_metrics[l][c] \in Nat


(***************************************************************************)
(* SpecAgent: one ABTestingAgent and one campaign.  Here the agent's       *)
(* test_results dictionary is modelled whole: the record of the campaign   *)
(* with its start_time, and each variant's entry with its metrics          *)
(* dictionary beside the four counters.                                    *)
(***************************************************************************)
CampaignId == "campaign"

\* The record and the variant entry record_event and track_metric create.
NewCampaignRecord == [variants |-> EmptyDict, start_time |-> "isoformat"]
NewVariantRecord == [metrics |-> EmptyDict, sent |-> 0, opened |-> 0, clicked |-> 0,
                     converted |-> 0]

\* The head shared by track_metric and record_event: create what is missing.
EnsureEntry(results, variant) ==
    LET r1 == IF CampaignId \in DOMAIN results THEN results
              ELSE Put(results, CampaignId, NewCampaignRecord)
    IN  IF variant \in DOMAIN r1[CampaignId].variants THEN r1
        ELSE [r1 EXCEPT ![CampaignId].variants = Put(@, variant, NewVariantRecord)]

\* ABTestingAgent.track_metric.
TrackMetric(results, variant, metric, value) ==
    [EnsureEntry(results, variant) EXCEPT
        ![CampaignId].variants[variant].metrics = Put(@, metric, value)]

\* A record_event that keeps an unknown event under a key of its own.
RecordEventKeepsUnknownEvent(results, variant, event, count) ==
    LET r == EnsureEntry(results, variant)
        entry == r[CampaignId].variants[variant]
    IN  IF event = "metrics" THEN [results |-> r, raised |-> TRUE]
        ELSE IF event \in DOMAIN entry
        THEN [results |-> [r EXCEPT ![CampaignId].variants[variant][event] = @ + count],
              raised |-> FALSE]
        ELSE [results |-> [r EXCEPT ![CampaignId].variants[variant] = Put(@, event, count)],
              raised |-> FALSE]

\* A record_event that starts the variant's entry afresh when it does not
\* know the event.
RecordEventResetsOnUnknown(results, variant, event, count) ==
    LET r == EnsureEntry(results, variant)
        entry == r[CampaignId].variants[variant]
    IN  IF event = "metrics" THEN [results |-> r, raised |-> TRUE]
        ELSE IF event \in DOMAIN entry
        THEN [results |-> [r EXCEPT ![CampaignId].variants[variant][event] = @ + count],
              raised |-> FALSE]
        ELSE [results |-> [r EXCEPT ![CampaignId].variants[variant] = NewVariantRecord],
              raised |-> FALSE]

\* ABTestingAgent.record_event on the whole dictionary.  An event named
\* "metrics" finds the entry's metrics dictionary, and adding a count to a
\* dictionary raises TypeError after the entry was created.
RecordEventOn(results, variant, event, count) ==
    LET r == EnsureEntry(results, variant)
        entry == r[CampaignId].variants[variant]
    IN  IF event = "metrics" THEN [results |-> r, raised |-> TRUE]
        ELSE IF event \in DOMAIN entry
        THEN [results |-> [r EXCEPT ![CampaignId].variants[variant][event] = @ + count],
              raised |-> FALSE]
        ELSE [results |-> r, raised |-> FALSE]

\* ABTestingAgent.calculate_metrics on the whole dictionary.
CalculateMetricsOf(results) ==
    IF CampaignId \notin DOMAIN results THEN [error |-> TRUE, rows |-> EmptyDict]
    ELSE [error |-> FALSE,
          rows |-> [l \in DOMAIN results[CampaignId].variants |->
                       VariantMetrics(results[CampaignId].variants[l])]]

\* json.dump: a dictionary becomes an object with the same keys, an int a
\* number, a str a string.
JsonNumber(n) == [kind |-> "number", value |-> n]
JsonString(str) == [kind |-> "string", value |-> str]
JsonObject(members) == [kind |-> "object", members |-> members]

JsonOfEntry(entry) ==
    JsonObject([k \in DOMAIN entry |->
                   IF k = "metrics"
                   THEN JsonObject([m \in DOMAIN entry.metrics |->
                                       JsonNumber(entry.metrics[m])])
                   ELSE JsonNumber(entry[k])])

JsonOfRecord(record) ==
    JsonObject([k \in DOMAIN record |->
                   IF k = "variants"
                   THEN JsonObject([l \in DOMAIN record.variants |->
                                       JsonOfEntry(record.variants[l])])
                   ELSE JsonString(record[k])])

\* ABTestingAgent.save_results: the file's content.
SaveResults(results) ==
    IF CampaignId \in DOMAIN results THEN JsonOfRecord(results[CampaignId])
    ELSE JsonObject(EmptyDict)

NoFile == [kind |-> "none"]
NoReturn == [error |-> TRUE, rows |-> EmptyDict]

\* The events and counts callers pass, and the metrics they track.
Events == {"sent", "opened", "clicked", "converted", "bounced", "metrics"}
EventCounts == {23, 100}
TrackedMetrics == {"open_rate"}
TrackedValues == {5}

InitAgent ==
    /\ use_sendgrid = TRUE
    /\ campaign_state = IdleCampaign
    /\ test_results = NoTestResults
    /\ provider = QuietProvider
    /\ sink = TRUE
    /\ calls = NoCalls
    /\ lastCall = NoCall
    /\ batch = IdleBatch
    /\ grouping = IdleGrouping
    /\ agent = [pc |-> "ready", test_results |-> EmptyDict, calls |-> 0,
                raised |-> FALSE, returned |-> NoReturn, file |-> NoFile,
                last |-> [op |-> "none", variant |-> "none", event |-> "none"]]
    /\ report = IdleReport
    /\ webhook = IdleWebhook
    /\ caller = IdleCaller
    /\ threads = IdleThreads
    /\ pipeline = IdlePipeline
    /\ fed = NothingFed

\* The calls on the agent: first the recording ones, then the readers.
AgentRecordEvent(variant, event, count) ==
    /\ agent.pc = "ready"
    /\ agent.calls < MaxAgentCalls
    /\ LET res == RecordEventOn(agent.test_results, variant, event, count)
       IN  agent' = [agent EXCEPT !.test_results = res.results,
                                  !.raised = res.raised,
                                  !.calls = @ + 1,
                                  !.last = [op |-> "record_event", variant |-> variant,
                                            event |-> event]]
    /\ UNCHANGED <<caller, report, webhook, use_sendgrid, campaign_state, test_results, provider, sink, grouping,
                   calls, lastCall, batch, threads, pipeline, fed>>

AgentTrackMetric(variant, metric, value) ==
    /\ agent.pc = "ready"
    /\ agent.calls < MaxAgentCalls
    /\ agent' = [agent EXCEPT
                    !.test_results = TrackMetric(agent.test_results, variant, metric, value),
                    !.raised = FALSE,
                    !.calls = @ + 1,
                    !.last = [op |-> "track_metric", variant |-> variant,
                              event |-> "none"]]
    /\ UNCHANGED <<caller, report, webhook, use_sendgrid, campaign_state, test_results, provider, sink, grouping,
                   calls, lastCall, batch, threads, pipeline, fed>>

AgentCalculateMetrics ==
    /\ agent' = [agent EXCEPT !.pc = "read",
                              !.returned = CalculateMetricsOf(agent.test_results),
                              !.raised = FALSE]
    /\ UNCHANGED <<caller, report, webhook, use_sendgrid, campaign_state, test_results, provider, sink, grouping,
                   calls, lastCall, batch, threads, pipeline, fed>>

AgentSaveResults ==
    /\ agent' = [agent EXCEPT !.pc = "read",
                              !.file = SaveResults(agent.test_results),
                              !.raised = FALSE]
    /\ UNCHANGED <<caller, report, webhook, use_sendgrid, campaign_state, test_results, provider, sink, grouping,
                   calls, lastCall, batch, threads, pipeline, fed>>

NextAgent ==
    \/ \E variant \in {"A", "B"}, event \in Events, count \in EventCounts :
          AgentRecordEvent(variant, event, count)
    \/ \E variant \in {"A", "B"}, metric \in TrackedMetrics, value \in TrackedValues :
          AgentTrackMetric(variant, metric, value)
    \/ AgentCalculateMetrics
    \/ AgentSaveResults

SpecAgent == InitAgent /\ [][NextAgent]_vars


\* Is rate, in hundredths of a percent, num / den * 100 rounded to two
\* decimals (the nearest hundredth), or 0 when den is not positive?
IsRoundedQuotient(rate, num, den) ==
    IF den > 0
    THEN LET diff == rate * den - num * 10000
         IN  2 * diff <= den /\ -2 * diff <= den
    ELSE rate = 0

\* C24: in what calculate_metrics returns, every label's open_rate,
\* click_rate and conversion_rate are opened, clicked and converted divided
\* by sent, times 100, rounded to two decimals when sent > 0, and exactly 0
\* when sent = 0; click_through_rate is clicked / opened * 100 when
\* opened > 0 and 0 otherwise (sent = 100, opened = 23 gives 23.00).
C24_RatesAreRoundedQuotients ==
    (agent.pc = "read" /\ ~agent.returned.error) =>
        \A l \in DOMAIN agent.returned.rows :
            LET row == agent.returned.rows[l]
            IN  /\ IsRoundedQuotient(row.open_rate, row.opened, row.sent)
                /\ IsRoundedQuotient(row.click_rate, row.clicked, row.sent)
                /\ IsRoundedQuotient(row.conversion_rate, row.converted, row.sent)
                /\ IsRoundedQuotient(row.click_through_rate, row.clicked, row.opened)
                /\ (row.sent = 100 /\ row.opened = 23) => row.open_rate = 2300

\* calculate_metrics returned rates for a label with 23 opens of 100 sent,
\* and for a label with opens but nothing sent.
C24_TwentyThreeOfHundred ==
    /\ agent.pc = "read" /\ ~agent.returned.error
    /\ \E l \in DOMAIN agent.returned.rows :
          /\ agent.returned.rows[l].sent = 100
          /\ agent.returned.rows[l].opened = 23
          /\ agent.returned.rows[l].open_rate = 2300
    /\ \E l \in DOMAIN agent.returned.rows :
          /\ agent.returned.rows[l].sent = 0
          /\ agent.returned.rows[l].opened > 0
          /\ agent.returned.rows[l].open_rate = 0


\* The field names of the results record and of a variant's entry.
RecordFields == {"variants", "start_time"}
EntryFields == {"metrics", "sent", "opened", "clicked", "converted"}

\* A saved file with the record's names and nesting: an object holding
\* start_time and the object variants, whose members are objects holding the
\* four counters as numbers and the object metrics.
HasRecordShape(file) ==
    /\ file.kind = "object"
    /\ DOMAIN file.members = RecordFields
    /\ file.members.start_time.kind = "string"
    /\ file.members.variants.kind = "object"
    /\ \A l \in DOMAIN file.members.variants.members :
          LET entry == file.members.variants.members[l]
          IN  /\ entry.kind = "object"
              /\ DOMAIN entry.members = EntryFields
              /\ entry.members.metrics.kind = "object"
              /\ \A k \in EntryFields \ {"metrics"} : entry.members[k].kind = "number"

\* C29: after any sequence of record_event and track_metric calls for a
\* campaign, its results record has exactly the fields variants and
\* start_time and every variant entry exactly the fields metrics, sent,
\* opened, clicked and converted; the file save_results writes for such a
\* record has the same field names and nesting.
C29_RecordSchemaKept ==
    CampaignId \in DOMAIN agent.test_results =>
        /\ DOMAIN agent.test_results[CampaignId] = RecordFields
        /\ \A l \in DOMAIN agent.test_results[CampaignId].variants :
              DOMAIN agent.test_results[CampaignId].variants[l] = EntryFields
        /\ agent.file # NoFile =>
              /\ HasRecordShape(agent.file)
              /\ DOMAIN agent.file.members.variants.members
                    = DOMAIN agent.test_results[CampaignId].variants

\* Three calls were made for two variants (A with a tracked metric and 23
\* sends, B with no counter changed), and the record was saved.
C29_SavedAfterMixedCalls ==
    /\ agent.file # NoFile
    /\ agent.calls = 3
    /\ CampaignId \in DOMAIN agent.test_results
    /\ DOMAIN agent.test_results[CampaignId].variants = {"A", "B"}
    /\ agent.test_results[CampaignId].variants["A"].metrics # EmptyDict
    /\ agent.test_results[CampaignId].variants["A"].sent = 23
    /\ \A k \in EntryFields \ {"metrics"} :
          agent.test_results[CampaignId].variants["B"][k] = 0


(***************************************************************************)
(* Claims about the order of run_campaign's stages, under SpecPipeline.    *)
(***************************************************************************)
\* The status a node sets when it succeeds.
StageIndicator ==
    [create_strategy |-> "strategy_created", segment_audience |-> "audience_segmented",
     generate_content |-> "content_generated",
     check_deliverability |-> "deliverability_checked"]

\* A step in which a node ran and succeeded.
NodeSucceeded ==
    /\ Len(pipeline'.log) = Len(pipeline.log) + 1
    /\ pipeline'.log[Len(pipeline'.log)].ok

\* The stage indicator advances after each success.
IndicatorAdvances ==
    [][NodeSucceeded =>
          campaign_state'.status = StageIndicator[pipeline'.log[Len(pipeline'.log)].node]]_vars

\* C25: run_campaign executes its stages one after the other in the fixed
\* order strategy, segmentation, content generation, group assignment,
\* deliverability, and the stage indicator advances after each success.
C25_ContentBeforeAssignment ==
    /\ [](IsPrefix(pipeline.stages,
                   <<"create_strategy", "segment_audience", "generate_content",
                     "create_test_groups", "check_deliverability">>))
    /\ IndicatorAdvances


\* C26: in the state run_campaign returns, generated content exists for
\* every label of the groups mapping (the keys of ab_test_groups are keys of
\* email_variants), also when content generation failed part-way.
C26_ContentForEveryGroup ==
    pipeline.pc = "returned" =>
        DOMAIN campaign_state.ab_test_groups \subseteq DOMAIN campaign_state.email_variants


\* C27: create_test_groups cuts the asked number of variants to the range
\* 1..3 and never raises: asked for more than 3 it returns exactly the groups
\* A, B and C, asked for fewer than 1 it returns exactly one group, A.
C27_VariantCountClamped ==
    /\ grouping.pc # "raised"
    /\ grouping.pc = "done" =>
          /\ grouping.num_variants > 3 => DOMAIN grouping.groups = {"A", "B", "C"}
          /\ grouping.num_variants < 1 => DOMAIN grouping.groups = {"A"}


(***************************************************************************)
(* The reconciler's estimate, under Spec.                                  *)
(***************************************************************************)
\* A snapshot estimated locally: one simulated activity per message, opened
\* and clicked counted from the activities, delivered what was sent less the
\* bounces.
IsEstimatedSnapshot(snapshot, message_ids) ==
    LET activities == snapshot.message_activities
    IN  /\ DOMAIN activities = Range(message_ids)
        /\ snapshot.opened = Cardinality({m \in DOMAIN activities : activities[m].opened})
        /\ snapshot.clicked = Cardinality({m \in DOMAIN activities : activities[m].clicked})
        /\ snapshot.delivered = snapshot.total_sent - snapshot.bounced

\* C28: when the provider's call fails or returns no usable data, the
\* snapshot the reconciler stores for a label is estimated locally (one
\* draw per message for opened and clicked, delivered = sent less the
\* estimated bounces) instead of holding the provider's empty values.
C28_FallbackIsEstimated ==
    use_sendgrid /\ (~provider.up \/ provider.stats = NoStats) =>
        \A l \in DOMAIN campaign_state.sendgrid_metrics :
            IsEstimatedSnapshot(campaign_state.sendgrid_metrics[l],
                                campaign_state.sendgrid_message_ids[l])


RECURSIVE ConcatGroups(_, _)
ConcatGroups(groups, keys) ==
    IF keys = <<>> THEN <<>>
    ELSE groups[Head(keys)] \o ConcatGroups(groups, Tail(keys))

\* C31: create_test_groups gives the labels A, B, (C), in this order,
\* contiguous slices of the shuffled list: with k recipients and n groups
\* (the asked count, at least 1, cut to 3) every label but the last receives
\* floor(k/n) recipients and the last one the remaining k - (n-1)*floor(k/n).
C31_ContiguousSlicesInLabelOrder ==
    grouping.pc = "done" /\ grouping.num_variants >= 1 =>
        LET g == grouping.groups
            k == Len(grouping.recipients)
            n == Min(grouping.num_variants, 3)
            keys == SubSeq(VariantLabels, 1, n)
        IN  /\ DOMAIN g = Range(keys)
            /\ ConcatGroups(g, keys) = grouping.recipients
            /\ \A i \in 1..n :
                  Len(g[keys[i]]) = IF i < n THEN k \div n
                                    ELSE k - (n - 1) * (k \div n)

\* Five recipients in two groups, shuffled out of their original order: A
\* holds the first two of the shuffled list, B the other three.
C31_FiveInTwoShuffled ==
    /\ grouping.pc = "done"
    /\ grouping.num_variants = 2
    /\ Len(grouping.recipients) = 5
    /\ grouping.recipients # UniformRecipients(5, TRUE)
    /\ Len(grouping.groups["A"]) = 2
    /\ Len(grouping.groups["B"]) = 3

(***************************************************************************)
(* The aggregate's rows, under Spec.                                       *)
(***************************************************************************)
\* The row of a label none of whose mails was sent: no send, every rate 0.
IsZeroRow(row) ==
    /\ row.sent = 0
    /\ \A r \in {"open_rate", "click_rate", "conversion_rate", "click_through_rate"} :
          row[r] = 0

\* C32: after the finalization that follows the dispatch of every label, the
\* aggregate is not the error result and has a row for every label that
\* was dispatched; a label none of whose
\* recipients was sent successfully has its row too, with sent = 0 and every
\* rate 0.
C32_RowForEveryDispatchedLabel ==
    Finalized(campaign_state) /\ AllVariantsSent(campaign_state) =>
        /\ ~campaign_state.ab_results.error
        /\ \A l \in Labels :
              campaign_state.sent[l] =>
                 /\ l \in DOMAIN campaign_state.ab_results.rows
                 /\ campaign_state.send_results[l].sent = 0 =>
                       IsZeroRow(campaign_state.ab_results.rows[l])

(***************************************************************************)
(* SpecReport: _check_deliverability on the two variants of a campaign,    *)
(* then generate_campaign_report on the stored check.  The content of a    *)
(* variant is given by what the checks find in it: the spam score its       *)
(* indicators add up to, and whether the compliance and the recipient      *)
(* validation pass.                                                        *)
(***************************************************************************)
SpamScores == 0..MaxSpamScore

\* DeliverabilityAgent.check_spam_score once the indicators are summed.
CheckSpamScore(spam_score) ==
    [spam_score |-> spam_score,
     risk_level |-> IF spam_score < 10 THEN "Low"
                    ELSE IF spam_score < 20 THEN "Medium" ELSE "High",
     passed |-> spam_score < 20]

\* DeliverabilityAgent.full_check.
FullCheck(content) ==
    LET spam_check == CheckSpamScore(content.spam_score)
    IN  [passed |-> spam_check.passed /\ content.others_pass,
         spam_check |-> spam_check]

\* _check_deliverability: one full check per variant, keyed by the label.
AllChecks(email_variants) ==
    [variant \in DOMAIN email_variants |-> FullCheck(email_variants[variant])]

\* The first part of _generate_insights: the best variant by open rate, and
\* the comparison of the first two variants.
PerformanceInsights(ab_results) ==
    IF ab_results.error THEN <<>>
    ELSE LET best == WinnerLoop(ab_results, "open_rate", 1, "none", 0)
             first == IF best # "none" THEN <<[kind |-> "best", variant |-> best]>>
                      ELSE <<>>
             second == IF Len(ab_results.order) >= 2
                          /\ ab_results.rows[ab_results.order[1]].open_rate
                                > ab_results.rows[ab_results.order[2]].open_rate
                       THEN <<[kind |-> "outperformed", variant |-> ab_results.order[1]]>>
                       ELSE <<>>
         IN  first \o second

\* deliverability.get("spam_check", {}).get("spam_score", 0): the dictionary
\* is looked up by the key "spam_check".
ReadSpamScore(deliverability) ==
    IF "spam_check" \in DOMAIN deliverability
    THEN deliverability["spam_check"].spam_score
    ELSE 0

\* The second part of _generate_insights.
DeliverabilityInsights(deliverability) ==
    IF deliverability = EmptyDict THEN <<>>
    ELSE LET spam_score == ReadSpamScore(deliverability)
         IN  IF spam_score < 10 THEN <<[kind |-> "low_spam_risk", variant |-> "none"]>>
             ELSE IF spam_score >= 20
                  THEN <<[kind |-> "high_spam_risk", variant |-> "none"]>>
                  ELSE <<>>

\* ReportingAgent._generate_insights.
GenerateInsights(ab_results, deliverability) ==
    PerformanceInsights(ab_results) \o DeliverabilityInsights(deliverability)

\* ReportingAgent.generate_campaign_report; the strategy summary, the
\* recommendations and the next steps are left out.
GenerateCampaignReport(ab_results, deliverability) ==
    [performance |-> ab_results,
     deliverability |-> deliverability,
     insights |-> GenerateInsights(ab_results, deliverability)]

\* The aggregates a report is made of: the error result, or the rows of A
\* and B with these open rates.
ReportedResults ==
    {[error |-> TRUE, order |-> <<>>, rows |-> EmptyDict]}
    \cup {[error |-> FALSE, order |-> <<"A", "B">>,
           rows |-> [l \in {"A", "B"} |->
                       VariantMetrics([sent |-> 4, opened |-> IF l = "A" THEN a ELSE b,
                                       clicked |-> 0, converted |-> 0])]] :
            a \in {0, 1}, b \in {0, 1}}

\* No report generated yet.
NotReported == [performance |-> NoResults, deliverability |-> EmptyDict, insights |-> <<>>]

InitReport ==
    /\ use_sendgrid = TRUE
    /\ campaign_state = IdleCampaign
    /\ test_results = NoTestResults
    /\ provider = QuietProvider
    /\ sink = TRUE
    /\ calls = NoCalls
    /\ lastCall = NoCall
    /\ batch = IdleBatch
    /\ grouping = IdleGrouping
    /\ agent = IdleAgent
    /\ \E a, b \in SpamScores, pa, pb \in BOOLEAN, results \in ReportedResults :
          report = [pc |-> "ready",
                    email_variants |-> [l \in {"A", "B"} |->
                        [spam_score |-> IF l = "A" THEN a ELSE b,
                         others_pass |-> IF l = "A" THEN pa ELSE pb]],
                    ab_results |-> results,
                    deliverability_check |-> EmptyDict,
                    campaign_report |-> NotReported]
    /\ webhook = IdleWebhook
    /\ caller = IdleCaller
    /\ threads = IdleThreads
    /\ pipeline = IdlePipeline
    /\ fed = NothingFed

\* _check_deliverability: the checks are stored, unless one of them raised.
ReportCheckDeliverability ==
    /\ report.pc = "ready"
    /\ \E ok \in BOOLEAN :
          report' = [report EXCEPT
                        !.pc = "checked",
                        !.deliverability_check =
                            IF ok THEN AllChecks(report.email_variants) ELSE @]
    /\ UNCHANGED <<caller, webhook, use_sendgrid, agent, sink, grouping, provider, campaign_state,
                   test_results, calls, lastCall, batch, threads, pipeline, fed>>

\* process_results' report: generate_campaign_report on the aggregate and
\* the state's deliverability_check.
ReportGenerate ==
    /\ report.pc = "checked"
    /\ report' = [report EXCEPT
                     !.pc = "reported",
                     !.campaign_report =
                         GenerateCampaignReport(report.ab_results,
                                                report.deliverability_check)]
    /\ UNCHANGED <<caller, webhook, use_sendgrid, agent, sink, grouping, provider, campaign_state,
                   test_results, calls, lastCall, batch, threads, pipeline, fed>>

NextReport == ReportCheckDeliverability \/ ReportGenerate

SpecReport == InitReport /\ [][NextReport]_vars

InsightKinds(campaign_report) ==
    {campaign_report.insights[i].kind : i \in DOMAIN campaign_report.insights}

\* C33: the spam-risk insight of the report follows the spam scores recorded
\* in the campaign's deliverability check: a variant with a score of 20 or
\* more gives the high-risk insight and never the low-risk one, scores all
\* below 10 give the low-risk insight, and scores in between give neither.
C33_SpamInsightFollowsScore ==
    (report.pc = "reported" /\ report.deliverability_check # EmptyDict) =>
        LET checks == report.deliverability_check
            scores == {checks[v].spam_check.spam_score : v \in DOMAIN checks}
            kinds == InsightKinds(report.campaign_report)
        IN  /\ (\E x \in scores : x >= 20) =>
                  "high_spam_risk" \in kinds /\ "low_spam_risk" \notin kinds
            /\ (\A x \in scores : x < 10) =>
                  "low_spam_risk" \in kinds /\ "high_spam_risk" \notin kinds
            /\ ((\A x \in scores : x < 20) /\ (\E x \in scores : x >= 10)) =>
                  "low_spam_risk" \notin kinds /\ "high_spam_risk" \notin kinds

(***************************************************************************)
(* The frame of a dispatch, under Spec.                                    *)
(***************************************************************************)
\* Two dictionaries agree on a key: it is in both or in neither, with the
\* same value.
SameAt(before, after, key) ==
    /\ (key \in DOMAIN after) = (key \in DOMAIN before)
    /\ key \in DOMAIN before => after[key] = before[key]

\* C34: the dispatch of one label is independent of the others: a
\* send_variant call for a label leaves the group, the content, the sent
\* flag, the send result and the recorded message ids of every other label
\* unchanged, whether or not the other label was dispatched before.
C34_DispatchLeavesOtherLabels ==
    [][lastCall'.op = "send_variant" =>
          \A l \in Labels \ {lastCall'.variant} :
             /\ SameAt(campaign_state.ab_test_groups, campaign_state'.ab_test_groups, l)
             /\ SameAt(campaign_state.email_variants, campaign_state'.email_variants, l)
             /\ campaign_state'.sent[l] = campaign_state.sent[l]
             /\ SameAt(campaign_state.send_results, campaign_state'.send_results, l)
             /\ SameAt(campaign_state.sendgrid_message_ids,
                       campaign_state'.sendgrid_message_ids, l)]_vars

\* A was dispatched after B: both are marked sent and B has kept its send
\* result.
C34_DispatchedAfterOther ==
    /\ lastCall.op = "send_variant" /\ lastCall.variant = "A"
    /\ campaign_state.sent["A"] /\ campaign_state.sent["B"]
    /\ "A" \in DOMAIN campaign_state.send_results
    /\ "B" \in DOMAIN campaign_state.send_results
    /\ campaign_state.send_results["B"].sent = 1

(***************************************************************************)
(* SpecOnce: the state run_campaign returns when every stage succeeded,    *)
(* then send_variant called once for each label of ab_test_groups, in any  *)
(* order, with the sender available and the activity log writable.         *)
(***************************************************************************)
InitOnce ==
    /\ use_sendgrid \in BOOLEAN
    /\ \E n \in 0..MaxRecipients, hasEmail \in BOOLEAN :
          campaign_state = RunCampaign(SmoothRun(UniformRecipients(n, hasEmail)))
    /\ test_results = NoTestResults
    /\ provider \in (IF use_sendgrid THEN Providers ELSE {QuietProvider})
    /\ sink = TRUE
    /\ calls = NoCalls
    /\ lastCall = NoCall
    /\ batch = IdleBatch
    /\ grouping = IdleGrouping
    /\ agent = IdleAgent
    /\ report = IdleReport
    /\ webhook = IdleWebhook
    /\ caller = [pc |-> "sending", pending |-> DOMAIN campaign_state.ab_test_groups]
    /\ threads = IdleThreads
    /\ pipeline = IdlePipeline
    /\ fed = NothingFed

\* orchestrator.send_variant(campaign_state, variant) for a label not yet
\* asked for.
OnceSendVariant(variant) ==
    LET st == [cs |-> campaign_state, tr |-> test_results]
        dispatches == Dispatches(campaign_state, variant)
        recipients == IF dispatches THEN campaign_state.ab_test_groups[variant] ELSE <<>>
    IN  /\ caller.pc = "sending"
        /\ variant \in caller.pending
        /\ \E outcome \in OutcomesWhen(TRUE, use_sendgrid, recipients) :
             \E res \in SendVariant(st, use_sendgrid, variant, outcome, Replies, Replies) :
                /\ campaign_state' = res.cs
                /\ test_results' = res.tr
        /\ lastCall' = [op |-> "send_variant", variant |-> variant, available |-> TRUE]
        /\ calls' = IF dispatches
                    THEN [calls EXCEPT !.send_batch[variant] = @ + 1]
                    ELSE calls
        /\ caller' = [caller EXCEPT !.pending = @ \ {variant}]
        /\ UNCHANGED <<report, webhook, use_sendgrid, agent, sink, grouping, provider, batch,
                       threads, pipeline, fed>>

NextOnce == \E variant \in Labels : OnceSendVariant(variant)

SpecOnce == InitOnce /\ [][NextOnce]_vars

\* C35: starting from the state of a run_campaign in which every stage
\* succeeded, with any number of selected recipients (0 and 1 included), once
\* send_variant has been called for each label of ab_test_groups with the
\* sender available, the campaign has a completed status: no label stays
\* undispatched.
C35_EveryLabelSentCompletes ==
    (caller.pc = "sending" /\ caller.pending = {}) =>
        /\ \A l \in DOMAIN campaign_state.ab_test_groups : campaign_state.sent[l]
        /\ Finalized(campaign_state)

(***************************************************************************)
(* The A/B counters' order, under Spec.                                    *)
(***************************************************************************)
\* C36: in every reachable state of the campaign's A/B results, each label
\* has opened <= sent and clicked <= opened, and no computed rate exceeds
\* 100 per cent, whatever dispatches and reconciliations produced the
\* counters.
C36_CountersOrdered ==
    /\ \A l \in DOMAIN test_results.variants :
          /\ test_results.variants[l].opened <= test_results.variants[l].sent
          /\ test_results.variants[l].clicked <= test_results.variants[l].opened
    /\ \A l \in DOMAIN campaign_state.ab_results.rows :
          \A r \in {"open_rate", "click_rate", "conversion_rate", "click_through_rate"} :
             campaign_state.ab_results.rows[l][r] <= 10000

(***************************************************************************)
(* The finalization of concurrent dispatches, under SpecConc.              *)
(***************************************************************************)
\* C37: when send_variant for A and send_variant for B run concurrently on
\* one campaign and both dispatch their label, then, once both calls have
\* returned, both labels are marked sent and the finalization
\* (process_results) has run exactly once.
C37_ConcurrentDispatchFinalizesOnce ==
    (/\ threads[1].label # threads[2].label
     /\ \A t \in Callers : threads[t].pc = "done"
     /\ \A t \in Callers : calls.send_batch[threads[t].label] = 1) =>
        /\ \A t \in Callers : campaign_state.sent[threads[t].label]
        /\ calls.process_results = 1

(***************************************************************************)
(* Events record_event does not count, under SpecAgent.                    *)
(***************************************************************************)
CountedEvents == {"sent", "opened", "clicked", "converted"}

\* The counters of a variant, those of a new entry when it has none yet.
CountersOf(results, variant) ==
    LET entry == IF CampaignId \in DOMAIN results
                    /\ variant \in DOMAIN results[CampaignId].variants
                 THEN results[CampaignId].variants[variant]
                 ELSE NewVariantRecord
    IN  [c \in CountedEvents |-> entry[c]]

\* C38: record_event with an event name other than sent, opened, clicked
\* and converted (bounced, for example) leaves every stored counter of every
\* variant as it was and stores no counter under the new name, so bounce
\* counts never enter the A/B results.
C38_UncountedEventChangesNothing ==
    [][(/\ agent.pc = "ready" /\ agent'.pc = "ready"
        /\ agent'.calls = agent.calls + 1
        /\ agent'.last.op = "record_event"
        /\ agent'.last.event \notin CountedEvents) =>
          \A l \in {"A", "B"} :
             /\ CountersOf(agent'.test_results, l) = CountersOf(agent.test_results, l)
             /\ l \in DOMAIN agent'.test_results[CampaignId].variants =>
                   agent'.last.event \notin
                      DOMAIN agent'.test_results[CampaignId].variants[l] \ {"metrics"}]_vars

\* Bounces were reported for a variant that had 23 sends recorded, and the
\* results read afterwards show the 23 sends and nothing else.
C38_BouncedAfterSent ==
    /\ agent.pc = "read" /\ ~agent.returned.error
    /\ agent.last.op = "record_event" /\ agent.last.event = "bounced"
    /\ agent.last.variant \in DOMAIN agent.returned.rows
    /\ agent.returned.rows[agent.last.variant].sent = 23
    /\ agent.returned.rows[agent.last.variant].opened = 0

(***************************************************************************)
(* SpecWebhook: one POST to /webhook/sendgrid.  The body is a list of       *)
(* events; an event is a dictionary (with or without custom_args, or with  *)
(* custom_args null) or something that is not a dictionary.  At the time   *)
(* each event is handled the activity log can be appended or not.          *)
(***************************************************************************)
EventTypes == {"open", "click", "bounce", "dropped", "delivered", "processed"}

WebhookEvents ==
    {[shape |-> "not_dict", event |-> "none"]}
    \cup [shape : {"dict", "custom_args", "null_args"}, event : EventTypes]

\* UserActivityTracker.log_activity: one row appended.  source is the
\* position in the request of the event the row was written for.
LogActivity(rows, campaign_id, variant, action, source) ==
    Append(rows, [campaign_id |-> campaign_id, variant |-> variant,
                  action |-> action, source |-> source])

\* process_sendgrid_event: every exception is caught and logged, whether it
\* comes from reading the event or from appending to the log.
ProcessSendgridEvent(rows, event, source, writable) ==
    IF event.shape \in {"not_dict", "null_args"} THEN rows
    ELSE LET campaign_id == IF event.shape = "custom_args" THEN CampaignId ELSE "unknown"
             variant == IF event.shape = "custom_args" THEN "A" ELSE "unknown"
         IN  IF event.event \in {"open", "click"}
             THEN IF writable
                  THEN LogActivity(rows, campaign_id, variant, event.event, source)
                  ELSE rows
             ELSE IF event.event = "delivered" THEN rows
             ELSE IF event.event \in {"bounce", "dropped"}
             THEN IF writable
                  THEN LogActivity(rows, campaign_id, variant, "bounce", source)
                  ELSE rows
             ELSE rows

\* Does handling the event raise inside process_sendgrid_event?
EventFails(event, writable) ==
    \/ event.shape \in {"not_dict", "null_args"}
    \/ event.event \in {"open", "click", "bounce", "dropped"} /\ ~writable

\* A loop that ends at the first event whose handling fails.
RECURSIVE ProcessEventsStopsAtFailure(_, _, _, _)
ProcessEventsStopsAtFailure(rows, data, writes, i) ==
    IF i > Len(data) \/ EventFails(data[i], writes[i]) THEN rows
    ELSE ProcessEventsStopsAtFailure(ProcessSendgridEvent(rows, data[i], i, writes[i]),
                                     data, writes, i + 1)

\* for event in data: process_sendgrid_event(event).
RECURSIVE ProcessEvents(_, _, _, _)
ProcessEvents(rows, data, writes, i) ==
    IF i > Len(data) THEN rows
    ELSE ProcessEvents(ProcessSendgridEvent(rows, data[i], i, writes[i]),
                       data, writes, i + 1)

\* sendgrid_webhook: the rows of the log and the status of the response.
SendgridWebhook(rows, data, writes) ==
    IF data = <<>> THEN [rows |-> rows, response |-> 400]
    ELSE [rows |-> ProcessEvents(rows, data, writes, 1), response |-> 200]

InitWebhook ==
    /\ use_sendgrid = TRUE
    /\ campaign_state = IdleCampaign
    /\ test_results = NoTestResults
    /\ provider = QuietProvider
    /\ sink = TRUE
    /\ calls = NoCalls
    /\ lastCall = NoCall
    /\ batch = IdleBatch
    /\ grouping = IdleGrouping
    /\ agent = IdleAgent
    /\ report = IdleReport
    /\ \E n \in 0..MaxEvents :
          \E data \in [1..n -> WebhookEvents], writes \in [1..n -> BOOLEAN] :
             webhook = [pc |-> "posted", data |-> data, writes |-> writes,
                        rows |-> <<>>, response |-> 0]
    /\ caller = IdleCaller
    /\ threads = IdleThreads
    /\ pipeline = IdlePipeline
    /\ fed = NothingFed

HandleWebhook ==
    /\ webhook.pc = "posted"
    /\ LET res == SendgridWebhook(webhook.rows, webhook.data, webhook.writes)
       IN  webhook' = [webhook EXCEPT !.pc = "answered",
                                      !.rows = res.rows,
                                      !.response = res.response]
    /\ UNCHANGED <<caller, report, use_sendgrid, agent, sink, grouping, provider,
                   campaign_state, test_results, calls, lastCall, batch, threads,
                   pipeline, fed>>

NextWebhook == HandleWebhook

SpecWebhook == InitWebhook /\ [][NextWebhook]_vars

\* The rows of the log written for the event at a position of the request.
RowsFor(rows, source) == {j \in DOMAIN rows : rows[j].source = source}

\* Handling the event raised: it is not a dictionary, its custom_args are
\* null, or it is to be logged while the log cannot be appended.
HandlingFailed(w, i) ==
    \/ w.data[i].shape \in {"not_dict", "null_args"}
    \/ w.data[i].event \in {"open", "click", "bounce", "dropped"} /\ ~w.writes[i]

\* C39: of the events of a webhook request, each open or click event gets
\* exactly one activity-log row with that action, each bounce or dropped
\* event exactly one row with the action bounce, every other event none; an
\* event whose handling fails gets no row and does not keep the events
\* after it from being handled.
C39_OneRowPerLoggedEvent ==
    webhook.pc = "answered" =>
        \A i \in DOMAIN webhook.data :
            LET mine == RowsFor(webhook.rows, i)
                type == webhook.data[i].event
            IN  IF HandlingFailed(webhook, i) THEN mine = {}
                ELSE IF type \in {"open", "click"}
                THEN /\ Cardinality(mine) = 1
                     /\ \A j \in mine : webhook.rows[j].action = type
                ELSE IF type \in {"bounce", "dropped"}
                THEN /\ Cardinality(mine) = 1
                     /\ \A j \in mine : webhook.rows[j].action = "bounce"
                ELSE mine = {}

\* The first event of a request could not be handled and the second, a
\* dropped mail, has its bounce row.
C39_RowAfterFailedEvent ==
    /\ webhook.pc = "answered"
    /\ Len(webhook.data) = 2
    /\ HandlingFailed(webhook, 1)
    /\ webhook.data[2].event = "dropped"
    /\ Len(webhook.rows) = 1
    /\ webhook.rows[1].action = "bounce"
    /\ webhook.rows[1].source = 2

====
